---- MODULE Spec2Model ----
(***************************************************************************)
(* The plugin router of app/api/router_plugins.py: resolution of a plugin  *)
(* name against the loader module, enumeration of the catalog, descriptor  *)
(* extraction and task dispatch, together with the Lazy Proxy plugins of    *)
(* app/plugins/*/plugin.py that the router resolves and calls.              *)
(***************************************************************************)
EXTENDS Integers, Sequences, FiniteSets, TLC

VARIABLES
    loader,   \* the attributes of the module app.plugins.loader
    mods,     \* what importing app.plugins.<name>.plugin gives, per name
    heap,     \* the plugin instances the loader holds, by object id
    req,      \* the last request
    resp,     \* the response to the last request
    resolved, \* what resolution gave the last POST request
    trace,    \* the loader/plugin steps the last request ran, in order
    calls,    \* the handler invocations of the last request, in order
    history,  \* per Lazy Proxy, every step made on it since it was built
    threads,  \* the callers at work on the Lazy Proxies, each with its position
    loop,     \* the event loop: the requests in flight and the one holding it
    store     \* the settings, the files on disk, the last upload and extraction

vars == <<loader, mods, heap, req, resp, resolved, trace, calls, history, threads, loop, store>>

(***************************************************************************)
(* Bounds of the model.                                                    *)
(***************************************************************************)
\* the number of entries an inventory of the loader holds at most
MaxInventory == 2
\* the number of load() and task calls made on one Lazy Proxy
MaxOps == 3
\* the number of concurrent callers of the Lazy Proxies
MaxThreads == 2
MaxRequests == 2
\* the number of uploads stored
MaxUploads == 2
\* the UPLOAD_MAX_MB setting
MaxMb == 2
\* the bytes of one MiB, scaled down
MiB == 4

(***************************************************************************)
(* Python values.                                                          *)
(***************************************************************************)
\* the reference that stands for Python's None
NoneRef == "None"
\* the reference of an instance built by direct construction in this request
FreshRef == "fresh"
\* a by-name lookup that raises for this key
RaiseRef == "RAISE"

NameStr(s) == [t |-> "str", s |-> s]
NameNone == [t |-> "none", s |-> ""]

\* truth value of a name field: None and "" are falsy
NameTruthy(nm) == nm.t = "str" /\ nm.s # ""

TasksOf(shape, items) == [shape |-> shape, items |-> items]
NoTasksAttr == TasksOf("absent", <<>>)

\* isinstance(x, (list, tuple, set))
IsListTupleSet(tv) == tv.shape \in {"list", "tuple", "set"}

\* truth value of a tasks field
TasksTruthy(tv) ==
    CASE tv.shape \in {"list", "tuple", "set"} -> Len(tv.items) > 0
      [] tv.shape = "str" -> TRUE
      [] OTHER -> FALSE

SeqToSet(s) == {s[i] : i \in 1..Len(s)}

Min(a, b) == IF a < b THEN a ELSE b

(***************************************************************************)
(* Plugin instances.  An instance carries its class name, its name,        *)
(* provider and tasks fields, its callable members (with whether each is   *)
(* an async function) and, for a Lazy Proxy, the state of _impl.           *)
(***************************************************************************)
Obj(cls, kind, name, provider, tasks, members, backing) ==
    [cls |-> cls, kind |-> kind, name |-> name, provider |-> provider,
     tasks |-> tasks, members |-> members, backing |-> backing,
     impl |-> "unset", implLoaded |-> FALSE]

\* Python's None, as an element of an inventory
NoneObj == Obj("NoneType", "none", NameNone, "", NoTasksAttr, <<>>, "")

\* app/plugins/text_tools/plugin.py
LazyTextTools ==
    Obj("Plugin", "lazy", NameStr("text_tools"), "local",
        TasksOf("list", <<"arabic_normalize", "spellcheck_ar">>),
        [load |-> "sync"], "text_tools")

\* app/plugins/pdf_reader/plugin.py
LazyPdfReader ==
    Obj("Plugin", "lazy", NameStr("pdf_reader"), "local",
        TasksOf("list", <<>>), [load |-> "sync"], "pdf_reader")

\* LAZY_WRAPPER_TEMPLATE instantiated for a service whose task is async
LazyTranslator ==
    Obj("Plugin", "lazy", NameStr("translator"), "local",
        TasksOf("list", <<"translate">>), [load |-> "sync"], "translator")

\* app/services/pdf_reader/plugin.py: the service exposed as a plugin
ServicePdfReader ==
    Obj("Plugin", "plain", NameStr("pdf_reader"), "",
        TasksOf("list", <<"extract_text">>),
        [extract_text |-> "sync", _resolve_path |-> "sync"], "")

\* app/services/base.py: a code-only service, with load() and infer()
CodeService ==
    Obj("CodeService", "plain", NameStr("service"), "",
        TasksOf("list", <<>>), [load |-> "sync", infer |-> "sync"], "")

\* a plugin of the open set: no name field, tasks not a sequence, one
\* async task method and no generic handler
AnonPlugin ==
    Obj("Plugin", "plain", NameNone, "", TasksOf("none", <<>>),
        [run |-> "async"], "")

\* a plugin of the open set: tasks a tuple, one task method besides an
\* async generic handler, and a declared task without a method
InferPlugin ==
    Obj("Echo", "plain", NameStr("echo"), "acme",
        TasksOf("tuple", <<"run">>), [infer |-> "async", repeat |-> "sync"], "")

\* the backing implementations app.services.<name>.service.Plugin
Services ==
    [text_tools |->
        [tasks |-> TasksOf("list", <<"arabic_normalize", "spellcheck_ar">>),
         methods |-> [arabic_normalize |-> "sync", spellcheck_ar |-> "sync"],
         hasLoad |-> TRUE],
     pdf_reader |->
        [tasks |-> TasksOf("list", <<"extract_text">>),
         methods |-> [extract_text |-> "sync", _resolve_path |-> "sync"],
         hasLoad |-> TRUE],
     translator |->
        [tasks |-> TasksOf("list", <<"translate">>),
         methods |-> [translate |-> "async"],
         hasLoad |-> FALSE]]

\* the instances a loader may hold, by object id
InitialHeap ==
    [tt |-> LazyTextTools, tt2 |-> LazyTextTools, pr |-> LazyPdfReader,
     tr |-> LazyTranslator, svc |-> ServicePdfReader, cs |-> CodeService,
     an |-> AnonPlugin, echo |-> InferPlugin]

ObjIds == DOMAIN InitialHeap

\* the Lazy Proxies among them
LazyIds == {id \in ObjIds : InitialHeap[id].kind = "lazy"}

NoHistory == [id \in LazyIds |-> <<>>]
NoThreads == <<>>
NoLoop == [running |-> 0, reqs |-> <<>>]
NoStore == <<>>

\* the classes named Plugin that direct construction can find
Classes ==
    [LazyTextTools |-> [ctorRaises |-> FALSE, obj |-> LazyTextTools],
     LazyPdfReader |-> [ctorRaises |-> FALSE, obj |-> LazyPdfReader],
     LazyTranslator |-> [ctorRaises |-> FALSE, obj |-> LazyTranslator],
     Anon |-> [ctorRaises |-> FALSE, obj |-> AnonPlugin],
     Broken |-> [ctorRaises |-> TRUE, obj |-> AnonPlugin]]

(***************************************************************************)
(* The loader module.  Each attribute is absent, a function (that raises   *)
(* or returns a value of some kind) or a container.  The items of a value  *)
(* are pairs <<key, reference>>: the key is used by mappings, lookup       *)
(* tables and name lists, the reference by everything that holds           *)
(* instances.                                                              *)
(***************************************************************************)
InitFnNames ==
    <<"ensure_plugins_loaded", "load_all_plugins", "load_plugins",
      "init_plugins", "initialize", "discover_plugins">>

FactoryFnNames ==
    <<"get_available_plugins", "list_available_plugins", "available_plugins",
      "get_plugins", "iter_plugins">>

RegistryNames == <<"REGISTRY", "PLUGINS", "plugins", "registry">>

NameApiNames ==
    <<"get_plugin_names", "list_plugin_names", "available_plugin_names">>

LookupFnNames == <<"get_plugin_instance", "load_plugin", "get", "resolve_plugin">>

AttrNames ==
    SeqToSet(InitFnNames) \cup SeqToSet(FactoryFnNames) \cup SeqToSet(RegistryNames)
        \cup SeqToSet(NameApiNames) \cup SeqToSet(LookupFnNames)

AbsentAttr ==
    [callable |-> FALSE, raises |-> FALSE, kind |-> "absent", items |-> <<>>]
FnRaises ==
    [callable |-> TRUE, raises |-> TRUE, kind |-> "none", items |-> <<>>]
FnReturns(kind, items) ==
    [callable |-> TRUE, raises |-> FALSE, kind |-> kind, items |-> items]
Container(kind, items) ==
    [callable |-> FALSE, raises |-> FALSE, kind |-> kind, items |-> items]

\* an inventory shows at most MaxInventory entries
Cut(items) == SubSeq(items, 1, Min(Len(items), MaxInventory))

\* the attributes f gives to the names, every other name absent
Only(names, f) ==
    [a \in SeqToSet(names) |-> IF a \in DOMAIN f THEN f[a] ELSE AbsentAttr]

InitProfiles ==
    { Only(InitFnNames, <<>>),
      Only(InitFnNames, [ensure_plugins_loaded |-> FnReturns("none", <<>>)]),
      Only(InitFnNames, [load_all_plugins |-> FnRaises,
                         init_plugins |-> FnReturns("none", <<>>),
                         discover_plugins |-> FnReturns("none", <<>>)]) }

LookupProfiles ==
    { Only(LookupFnNames, <<>>),
      Only(LookupFnNames,
           [get_plugin_instance |->
                FnReturns("table", Cut(<<<<"text_tools", "tt">>,
                                         <<"pdf_reader", "pr">>,
                                         <<"echo", "echo">>>>))]),
      Only(LookupFnNames,
           [get_plugin_instance |-> FnRaises,
            load_plugin |-> FnReturns("none", <<>>),
            get |-> FnReturns("table", Cut(<<<<"translator", "tr">>,
                                             <<"pdf_reader", RaiseRef>>,
                                             <<"service", "cs">>>>)),
            resolve_plugin |->
                FnReturns("table", Cut(<<<<"translator", "an">>,
                                         <<"pdf_reader", "svc">>>>))]),
      Only(LookupFnNames,
           [get_plugin_instance |->
                FnReturns("table", Cut(<<<<"pdf_reader", RaiseRef>>,
                                         <<"text_tools", "tt">>>>)),
            get |-> Container("dict", <<>>)]) }

RegistryProfiles ==
    { Only(RegistryNames, <<>>),
      Only(RegistryNames,
           [REGISTRY |-> Container("dict", Cut(<<<<"text_tools", "tt2">>,
                                                 <<"echo", "echo">>,
                                                 <<"pdf_reader", "svc">>>>))]),
      Only(RegistryNames,
           [REGISTRY |-> Container("dict", <<>>),
            PLUGINS |-> Container("list", Cut(<<<<"", "tr">>, <<"", "an">>,
                                                <<"", "tr">>>>)),
            registry |-> Container("dict", Cut(<<<<"Plugin", "an">>,
                                                 <<"service", "cs">>>>))]),
      Only(RegistryNames,
           [REGISTRY |-> Container("dict", Cut(<<<<"text_tools", NoneRef>>,
                                                 <<"service", "cs">>>>)),
            plugins |-> Container("other", <<>>)]) }

FactoryProfiles ==
    { Only(FactoryFnNames, <<>>),
      Only(FactoryFnNames,
           [get_available_plugins |->
                FnReturns("dict", Cut(<<<<"pdf", "svc">>, <<"pdf_reader", "svc">>,
                                        <<"text_tools", "tt">>>>))]),
      Only(FactoryFnNames,
           [get_available_plugins |-> FnRaises,
            list_available_plugins |-> FnReturns("none", <<>>),
            available_plugins |-> FnReturns("gen", Cut(<<<<"", "echo">>,
                                                       <<"", "an">>>>)),
            get_plugins |-> FnReturns("list", Cut(<<<<"", "tt">>>>))]),
      Only(FactoryFnNames,
           [list_available_plugins |-> FnReturns("list", <<>>),
            iter_plugins |-> FnReturns("tuple", Cut(<<<<"", "cs">>>>))]) }

NameApiProfiles ==
    { Only(NameApiNames, <<>>),
      Only(NameApiNames,
           [get_plugin_names |-> FnRaises,
            list_plugin_names |->
                FnReturns("names", Cut(<<<<"text_tools", "">>, <<"pdf_reader", "">>,
                                         <<"ghost_plugin", "">>>>))]) }

Merge(f, g) == [a \in (DOMAIN f) \cup (DOMAIN g) |-> IF a \in DOMAIN f THEN f[a] ELSE g[a]]

\* a loader module that cannot be imported
BrokenLoader ==
    [importOk |-> FALSE, attrs |-> [a \in AttrNames |-> AbsentAttr]]

Loader(i, l, r, f, n) ==
    [importOk |-> TRUE, attrs |-> Merge(i, Merge(l, Merge(r, Merge(f, n))))]

\* the loaders explored: every combination of init, lookup and registry
\* conventions without catalog functions, and every combination of
\* catalog conventions over the lookup and registry shapes named below
Loaders ==
    {BrokenLoader}
    \cup { Loader(i, l, r, Only(FactoryFnNames, <<>>), Only(NameApiNames, <<>>)) :
            i \in InitProfiles, l \in LookupProfiles, r \in RegistryProfiles }
    \cup { Loader(i, l, r, f, n) :
            i \in InitProfiles,
            l \in {p \in LookupProfiles : p["resolve_plugin"] = AbsentAttr},
            r \in {p \in RegistryProfiles : p["REGISTRY"].items = <<>>},
            f \in FactoryProfiles, n \in NameApiProfiles }

\* what importing app.plugins.<name>.plugin gives: a class id of Classes,
\* or "missing" (no such module), "import_raises", "no_class"
ModuleProfiles ==
    { [text_tools |-> "LazyTextTools", pdf_reader |-> "LazyPdfReader",
       translator |-> "LazyTranslator"],
      [text_tools |-> "import_raises", pdf_reader |-> "no_class",
       translator |-> "Broken", Plugin |-> "Anon"] }

ModuleOf(m, name) == IF name \in DOMAIN m THEN m[name] ELSE "missing"

(***************************************************************************)
(* Steps of a request, as recorded in trace.                               *)
(***************************************************************************)
Ev(op, arg) == [op |-> op, arg |-> arg]

Deref(h, ref) == IF ref = NoneRef THEN NoneObj ELSE h[ref]

\* the value a mapping or lookup table holds for a key, NoneRef if none
RECURSIVE ItemFor(_, _, _)
ItemFor(items, key, i) ==
    IF i > Len(items) THEN NoneRef
    ELSE IF items[i][1] = key THEN items[i][2]
    ELSE ItemFor(items, key, i + 1)

HasKey(items, key) == \E i \in 1..Len(items) : items[i][1] = key

Refs(items) == [i \in 1..Len(items) |-> items[i][2]]
Keys(items) == [i \in 1..Len(items) |-> items[i][1]]

\* fn(name) for a by-name lookup function that does not raise on entry
LookupCall(fn, name) ==
    IF fn.raises THEN RaiseRef
    ELSE IF fn.kind = "table" THEN ItemFor(fn.items, name, 1)
    ELSE NoneRef

(***************************************************************************)
(* _loader_module: import the loader, then the best-effort init call.      *)
(***************************************************************************)
\* an init loop that goes on after an init function has returned
RECURSIVE InitCallsAll(_, _)
InitCallsAll(ld, i) ==
    IF i > Len(InitFnNames) THEN <<>>
    ELSE IF ~ld.attrs[InitFnNames[i]].callable THEN InitCallsAll(ld, i + 1)
    ELSE <<Ev("init", InitFnNames[i])>> \o InitCallsAll(ld, i + 1)

RECURSIVE InitCalls(_, _)
InitCalls(ld, i) ==
    IF i > Len(InitFnNames) THEN <<>>
    ELSE LET fn == ld.attrs[InitFnNames[i]]
             ev == Ev("init", InitFnNames[i])
         IN  IF ~fn.callable THEN InitCalls(ld, i + 1)
             ELSE IF fn.raises THEN <<ev>> \o InitCalls(ld, i + 1)
             ELSE <<ev>>

loader_module(ld) ==
    IF ~ld.importOk
    THEN [raised |-> TRUE, events |-> <<Ev("import_loader", "raises")>>]
    ELSE [raised |-> FALSE,
          events |-> <<Ev("import_loader", "ok")>> \o InitCalls(ld, 1)]

(***************************************************************************)
(* _iter_plugin_instances.  The result is the inventory returned: its      *)
(* references, and whether it is the lazy filter of strategy 3, whose      *)
(* by-name lookups run (and may raise) only when the caller iterates.      *)
(***************************************************************************)
NoInventory == [found |-> FALSE, lazy |-> FALSE, items |-> <<>>, events |-> <<>>]

After(ev, r) == [r EXCEPT !.events = <<ev>> \o @]

RECURSIVE FromFactories(_, _)
FromFactories(ld, i) ==
    IF i > Len(FactoryFnNames) THEN NoInventory
    ELSE LET fn == ld.attrs[FactoryFnNames[i]]
             ev == Ev("factory", FactoryFnNames[i])
         IN  IF ~fn.callable THEN FromFactories(ld, i + 1)
             ELSE IF fn.raises THEN After(ev, FromFactories(ld, i + 1))
             ELSE IF fn.kind \in {"dict", "list", "tuple", "set", "gen"}
             THEN [found |-> TRUE, lazy |-> FALSE, items |-> Refs(fn.items),
                   events |-> <<ev>>]
             ELSE After(ev, FromFactories(ld, i + 1))

RECURSIVE FromRegistries(_, _)
FromRegistries(ld, i) ==
    IF i > Len(RegistryNames) THEN NoInventory
    ELSE LET reg == ld.attrs[RegistryNames[i]]
             ev == Ev("registry", RegistryNames[i])
         IN  IF reg.kind \in {"dict", "list", "tuple"} /\ Len(reg.items) > 0
             THEN [found |-> TRUE, lazy |-> FALSE, items |-> Refs(reg.items),
                   events |-> <<ev>>]
             ELSE After(ev, FromRegistries(ld, i + 1))

RECURSIVE FromNames(_, _)
FromNames(ld, i) ==
    IF i > Len(NameApiNames) THEN NoInventory
    ELSE LET fn == ld.attrs[NameApiNames[i]]
             ev == Ev("names", NameApiNames[i])
             get_inst == ld.attrs["get_plugin_instance"]
         IN  IF ~fn.callable THEN FromNames(ld, i + 1)
             ELSE IF fn.raises THEN After(ev, FromNames(ld, i + 1))
             ELSE IF Len(fn.items) > 0 /\ get_inst.callable
             THEN [found |-> TRUE, lazy |-> TRUE,
                   items |-> [k \in 1..Len(fn.items) |->
                                 LookupCall(get_inst, fn.items[k][1])],
                   events |-> <<ev>>]
             ELSE After(ev, FromNames(ld, i + 1))

\* the inventory of the first strategy that gives one
FirstInventory(lm, s1, s2, s3) ==
    IF lm.raised
    THEN [raised |-> TRUE, lazy |-> FALSE, items |-> <<>>, events |-> lm.events]
    ELSE IF s1.found
    THEN [raised |-> FALSE, lazy |-> FALSE, items |-> s1.items,
          events |-> lm.events \o s1.events]
    ELSE IF s2.found
    THEN [raised |-> FALSE, lazy |-> FALSE, items |-> s2.items,
          events |-> lm.events \o s1.events \o s2.events]
    ELSE [raised |-> FALSE, lazy |-> s3.lazy, items |-> s3.items,
          events |-> lm.events \o s1.events \o s2.events \o s3.events]

iter_plugin_instances(ld) ==
    FirstInventory(loader_module(ld), FromFactories(ld, 1), FromRegistries(ld, 1),
                   FromNames(ld, 1))

(***************************************************************************)
(* _serialize_meta                                                         *)
(***************************************************************************)
serialize_meta(plugin) ==
    [name |-> IF NameTruthy(plugin.name) THEN plugin.name.s ELSE plugin.cls,
     provider |-> plugin.provider,
     tasks |-> IF IsListTupleSet(plugin.tasks) THEN plugin.tasks.items ELSE <<>>]

(***************************************************************************)
(* Lazy Proxy: load() of app/plugins/<name>/plugin.py.  lo is what         *)
(* happens when the backing implementation is imported, constructed and    *)
(* loaded: "ok", "import_fails", "ctor_fails" or "load_fails".             *)
(***************************************************************************)
LoadOutcomes == {"ok", "import_fails", "ctor_fails", "load_fails"}

LoadFailure(lo) ==
    CASE lo = "import_fails" -> "No module named service"
      [] lo = "ctor_fails" -> "cannot construct service"
      [] OTHER -> "service load failed"

\* a load() without the test of _impl: it builds the backing
\* implementation on every call
LazyLoadEveryTime(obj, lo) ==
    IF lo = "import_fails"
    THEN [obj |-> obj, raised |-> TRUE, msg |-> LoadFailure(lo),
          events |-> <<Ev("impl_import", "raises")>>]
    ELSE [obj |-> [obj EXCEPT !.impl = "built", !.implLoaded = TRUE],
          raised |-> FALSE, msg |-> "",
          events |-> <<Ev("impl_import", "ok"), Ev("impl_construct", "ok"),
                       Ev("impl_load", "ok")>>]

LazyLoad(obj, lo) ==
    LET svc == Services[obj.backing]
        built == [obj EXCEPT !.impl = "built"]
        adopted ==
            IF ~TasksTruthy(obj.tasks) /\ IsListTupleSet(svc.tasks)
            THEN [built EXCEPT !.implLoaded = TRUE,
                               !.tasks = TasksOf("list", svc.tasks.items)]
            ELSE [built EXCEPT !.implLoaded = TRUE]
    IN  IF obj.impl # "unset"
        THEN [obj |-> obj, raised |-> FALSE, msg |-> "", events |-> <<>>]
        ELSE IF lo = "import_fails"
        THEN [obj |-> obj, raised |-> TRUE, msg |-> LoadFailure(lo),
              events |-> <<Ev("impl_import", "raises")>>]
        ELSE IF lo = "ctor_fails"
        THEN [obj |-> obj, raised |-> TRUE, msg |-> LoadFailure(lo),
              events |-> <<Ev("impl_import", "ok"), Ev("impl_construct", "raises")>>]
        ELSE IF svc.hasLoad /\ lo = "load_fails"
        THEN [obj |-> built, raised |-> TRUE, msg |-> LoadFailure(lo),
              events |-> <<Ev("impl_import", "ok"), Ev("impl_construct", "ok"),
                           Ev("impl_load", "raises")>>]
        ELSE [obj |-> adopted, raised |-> FALSE, msg |-> "",
              events |-> <<Ev("impl_import", "ok"), Ev("impl_construct", "ok")>>
                         \o (IF svc.hasLoad THEN <<Ev("impl_load", "ok")>> ELSE <<>>)]

(***************************************************************************)
(* _instantiate_direct                                                     *)
(***************************************************************************)
NotResolved(events) ==
    [raised |-> FALSE, ref |-> NoneRef, obj |-> NoneObj, events |-> events]

\* inst.load() when the instance has a callable load; ll is what load()
\* of a Lazy Proxy does
CallLoad(inst, name, ll) ==
    IF "load" \notin DOMAIN inst.members
    THEN [obj |-> inst, events |-> <<>>]
    ELSE IF inst.kind = "lazy"
    THEN [obj |-> ll.obj, events |-> <<Ev("load", name)>> \o ll.events]
    ELSE [obj |-> inst, events |-> <<Ev("load", name)>>]

\* inst.name = name when the instance has no truthy name
EnsureName(loaded, name) ==
    IF NameTruthy(loaded.obj.name)
    THEN loaded
    ELSE [obj |-> [loaded.obj EXCEPT !.name = NameStr(name)],
          events |-> loaded.events \o <<Ev("set_name", name)>>]

Constructed(named, name) ==
    [raised |-> FALSE, ref |-> FreshRef, obj |-> named.obj,
     events |-> <<Ev("direct_import", name), Ev("construct", "ok")>> \o named.events]

FromModule(mod, name, lo) ==
    IF mod \in {"missing", "import_raises", "no_class"}
    THEN NotResolved(<<Ev("direct_import", name)>>)
    ELSE IF Classes[mod].ctorRaises
    THEN NotResolved(<<Ev("direct_import", name), Ev("construct", "raises")>>)
    ELSE Constructed(EnsureName(CallLoad(Classes[mod].obj, name,
                                         LazyLoad(Classes[mod].obj, lo)),
                                name),
                     name)

instantiate_direct(m, name, lo) == FromModule(ModuleOf(m, name), name, lo)

(***************************************************************************)
(* _get_plugin_instance                                                    *)
(***************************************************************************)
NoHit == [hit |-> FALSE, ref |-> NoneRef, events |-> <<>>]

RECURSIVE ByLookup(_, _, _)
ByLookup(ld, name, i) ==
    IF i > Len(LookupFnNames) THEN NoHit
    ELSE LET fn == ld.attrs[LookupFnNames[i]]
             ev == Ev("lookup", LookupFnNames[i])
             inst == LookupCall(fn, name)
         IN  IF ~fn.callable THEN ByLookup(ld, name, i + 1)
             ELSE IF inst \in {RaiseRef, NoneRef}
             THEN After(ev, ByLookup(ld, name, i + 1))
             ELSE [hit |-> TRUE, ref |-> inst, events |-> <<ev>>]

RECURSIVE ByRegistry(_, _, _)
ByRegistry(ld, name, i) ==
    IF i > Len(RegistryNames) THEN NoHit
    ELSE LET reg == ld.attrs[RegistryNames[i]]
             ev == Ev("registry", RegistryNames[i])
         IN  IF reg.kind = "dict" /\ HasKey(reg.items, name)
             THEN [hit |-> TRUE, ref |-> ItemFor(reg.items, name, 1),
                   events |-> <<ev>>]
             ELSE After(ev, ByRegistry(ld, name, i + 1))

\* the instance of the first strategy that gives one
FirstHit(lm, s1, s2, s3, h) ==
    IF lm.raised
    THEN [raised |-> TRUE, ref |-> NoneRef, obj |-> NoneObj, events |-> lm.events]
    ELSE IF s1.hit
    THEN [raised |-> FALSE, ref |-> s1.ref, obj |-> Deref(h, s1.ref),
          events |-> lm.events \o s1.events]
    ELSE IF s2.hit
    THEN [raised |-> FALSE, ref |-> s2.ref, obj |-> Deref(h, s2.ref),
          events |-> lm.events \o s1.events \o s2.events]
    ELSE [s3 EXCEPT !.events = lm.events \o s1.events \o s2.events \o @]

\* a resolver that consults the registries before the lookup functions
get_plugin_instance_registries_first(ld, m, h, name, lo) ==
    FirstHit(loader_module(ld), ByRegistry(ld, name, 1), ByLookup(ld, name, 1),
             instantiate_direct(m, name, lo), h)

get_plugin_instance(ld, m, h, name, lo) ==
    FirstHit(loader_module(ld), ByLookup(ld, name, 1), ByRegistry(ld, name, 1),
             instantiate_direct(m, name, lo), h)

(***************************************************************************)
(* Responses.  kind is "ok", "http_error" (an HTTPException, rendered as   *)
(* a JSON body {detail}) or "unhandled" (any other exception leaving the   *)
(* route handler: the framework answers 500 with a plain-text body).       *)
(***************************************************************************)
Resp(kind, status, detail, body) ==
    [kind |-> kind, status |-> status, detail |-> detail, body |-> body]

NoResp == Resp("none", 0, "", <<>>)
Unhandled == Resp("unhandled", 500, "", "Internal Server Error")
HttpException(status, detail) == Resp("http_error", status, detail, <<>>)
PluginNotFound(name) == HttpException(404, "Plugin not found: " \o name)

(***************************************************************************)
(* GET /plugins and GET /plugins/{name}                                    *)
(***************************************************************************)
RECURSIVE Metas(_, _, _, _)
\* list(_iter_plugin_instances()) serialized, or "raises" when a by-name
\* lookup of the lazy filter raises while the list is built
Metas(h, inv, i, acc) ==
    IF i > Len(inv.items) THEN [raised |-> FALSE, metas |-> acc]
    ELSE IF inv.lazy /\ inv.items[i] = RaiseRef
    THEN [raised |-> TRUE, metas |-> <<>>]
    ELSE IF inv.lazy /\ inv.items[i] = NoneRef
    THEN Metas(h, inv, i + 1, acc)
    ELSE Metas(h, inv, i + 1, Append(acc, serialize_meta(Deref(h, inv.items[i]))))

Listed(inv, got) ==
    [resp |-> IF inv.raised \/ got.raised THEN Unhandled
              ELSE Resp("ok", 200, "", got.metas),
     events |-> inv.events]

ListOf(inv, h) == Listed(inv, Metas(h, inv, 1, <<>>))

list_plugins(ld, h) == ListOf(iter_plugin_instances(ld), h)

RECURSIVE FindMetaRawName(_, _, _, _)
\* a search that compares the instance's own name attribute, not the name
\* of its descriptor
FindMetaRawName(h, inv, name, i) ==
    IF i > Len(inv.items) THEN PluginNotFound(name)
    ELSE IF inv.lazy /\ inv.items[i] = RaiseRef THEN Unhandled
    ELSE IF inv.lazy /\ inv.items[i] = NoneRef THEN FindMetaRawName(h, inv, name, i + 1)
    ELSE IF Deref(h, inv.items[i]).name.s = name
    THEN Resp("ok", 200, "", serialize_meta(Deref(h, inv.items[i])))
    ELSE FindMetaRawName(h, inv, name, i + 1)

RECURSIVE FindMeta(_, _, _, _)
FindMeta(h, inv, name, i) ==
    IF i > Len(inv.items) THEN PluginNotFound(name)
    ELSE IF inv.lazy /\ inv.items[i] = RaiseRef THEN Unhandled
    ELSE IF inv.lazy /\ inv.items[i] = NoneRef THEN FindMeta(h, inv, name, i + 1)
    ELSE IF serialize_meta(Deref(h, inv.items[i])).name = name
    THEN Resp("ok", 200, "", serialize_meta(Deref(h, inv.items[i])))
    ELSE FindMeta(h, inv, name, i + 1)

Searched(inv, h, name) ==
    [resp |-> IF inv.raised THEN Unhandled ELSE FindMeta(h, inv, name, 1),
     events |-> inv.events]

get_plugin(ld, h, name) == Searched(iter_plugin_instances(ld), h, name)

(***************************************************************************)
(* Handlers.  ho is what the task method does when it runs.                *)
(***************************************************************************)
Returns(v) == [k |-> "return", v |-> v, status |-> 0, msg |-> ""]
Raises(msg) == [k |-> "raise", v |-> "", status |-> 0, msg |-> msg]
RaisesHttp(status, detail) == [k |-> "http", v |-> "", status |-> status, msg |-> detail]

\* what calling an async function without awaiting it returns
Coroutine == "<coroutine object>"

HandlerOutcomes ==
    { Returns("r1"), Returns("r2"), Raises("boom"),
      RaisesHttp(400, "Provide 'rel_path' or 'path' to the PDF."),
      RaisesHttp(404, "File not found.") }

\* json.dumps of the response content succeeds
JsonSerializable(v) == v # Coroutine

DataAttrs == {"name", "tasks", "provider", "_impl"}

\* getattr(plugin, attr, None): "member" (a method of the class), "proxy"
\* (the _call closure of a Lazy Proxy's __getattr__) or "none" (absent or
\* not callable)
GetAttr(plugin, attr) ==
    IF attr \in DOMAIN plugin.members THEN "member"
    ELSE IF attr \in DataAttrs THEN "none"
    ELSE IF plugin.kind = "lazy" /\ attr \in SeqToSet(plugin.tasks.items) THEN "proxy"
    ELSE "none"

\* inspect.iscoroutinefunction(getattr(plugin, attr))
IsCoroutineFunction(plugin, attr) ==
    GetAttr(plugin, attr) = "member" /\ plugin.members[attr] = "async"

\* _call(payload) of a Lazy Proxy: load(), then the method of _impl
\* a _call that forwards to _impl before it calls load()
ForwardThenLoad(ld, svc, attr, ho) ==
    [obj |-> ld.obj, outcome |-> ho,
     events |-> <<Ev("impl_call", attr)>> \o ld.events]

Forward(ld, svc, attr, ho) ==
    IF ld.raised
    THEN [obj |-> ld.obj, outcome |-> Raises(ld.msg), events |-> ld.events]
    ELSE IF attr \notin DOMAIN svc.methods
    THEN [obj |-> ld.obj, outcome |-> Raises(attr), events |-> ld.events]
    ELSE [obj |-> ld.obj,
          outcome |-> IF svc.methods[attr] = "async" THEN Returns(Coroutine) ELSE ho,
          events |-> ld.events \o <<Ev("impl_call", attr)>>]

ProxyCall(plugin, attr, ho, lo) ==
    Forward(LazyLoad(plugin, lo), Services[plugin.backing], attr, ho)

\* fn(payload), before any await: calling an async function runs nothing
\* and returns a coroutine object
RawCall(plugin, attr, ho, lo) ==
    IF GetAttr(plugin, attr) = "proxy"
    THEN ProxyCall(plugin, attr, ho, lo)
    ELSE [obj |-> plugin,
          outcome |-> IF plugin.members[attr] = "async" THEN Returns(Coroutine) ELSE ho,
          events |-> <<Ev("call", attr)>>]

\* result = await fn(payload) if inspect.iscoroutinefunction(fn) else fn(payload)
Awaited(awaits, raw, ho) ==
    IF awaits THEN [raw EXCEPT !.outcome = ho] ELSE raw

Invoke(plugin, attr, ho, lo) ==
    Awaited(IsCoroutineFunction(plugin, attr), RawCall(plugin, attr, ho, lo), ho)

\* a copy of the payload whose task key is always the invoked task
ForwardedOverwrites(payload, task) ==
    [k \in (DOMAIN payload) \cup {"task"} |->
        IF k = "task" THEN task ELSE payload[k]]

\* dict(payload) with setdefault("task", task)
Forwarded(payload, task) ==
    IF "task" \in DOMAIN payload THEN payload
    ELSE [k \in (DOMAIN payload) \cup {"task"} |->
            IF k = "task" THEN task ELSE payload[k]]

\* the declared tasks without the placeholder for an empty list
AvailableNoPlaceholder(declared_tasks) ==
    IF IsListTupleSet(declared_tasks) THEN declared_tasks.items ELSE <<>>

Available(declared_tasks) ==
    IF IsListTupleSet(declared_tasks) /\ Len(declared_tasks.items) > 0
    THEN declared_tasks.items
    ELSE <<"<none>">>

RECURSIVE Join(_, _)
\* the items of a list as Python prints them: 'a', 'b'
Join(items, i) ==
    IF i > Len(items) THEN ""
    ELSE "'" \o items[i] \o "'" \o (IF i < Len(items) THEN ", " ELSE "") \o Join(items, i + 1)

ListRepr(items) == "[" \o Join(items, 1) \o "]"

TaskNotFound(task, name, declared_tasks) ==
    HttpException(404, "Task '" \o task \o "' not found in plugin '" \o name
                       \o "'. Available: " \o ListRepr(Available(declared_tasks)))

\* a dispatcher that answers with the plugin and task fields exchanged
AnswerFieldsExchanged(prefix, name, task, outcome) ==
    CASE outcome.k = "http" -> HttpException(outcome.status, outcome.msg)
      [] outcome.k = "raise" ->
            HttpException(500, prefix \o "'" \o task \o "' failed: " \o outcome.msg)
      [] outcome.k = "return" /\ ~JsonSerializable(outcome.v) ->
            HttpException(500, prefix \o "'" \o task \o "' failed: "
                               \o "Object of type coroutine is not JSON serializable")
      [] OTHER ->
            Resp("ok", 200, "", [plugin |-> task, task |-> name, result |-> outcome.v])

\* a dispatcher that wraps an HTTPException of the handler like any failure
AnswerWrapsHttp(prefix, name, task, outcome) ==
    CASE outcome.k \in {"http", "raise"} ->
            HttpException(500, prefix \o "'" \o task \o "' failed: " \o outcome.msg)
      [] outcome.k = "return" /\ ~JsonSerializable(outcome.v) ->
            HttpException(500, prefix \o "'" \o task \o "' failed: "
                               \o "Object of type coroutine is not JSON serializable")
      [] OTHER ->
            Resp("ok", 200, "", [plugin |-> name, task |-> task, result |-> outcome.v])

\* the answer of the dispatcher to what the handler did
Answer(prefix, name, task, outcome) ==
    CASE outcome.k = "http" -> HttpException(outcome.status, outcome.msg)
      [] outcome.k = "raise" ->
            HttpException(500, prefix \o "'" \o task \o "' failed: " \o outcome.msg)
      [] outcome.k = "return" /\ ~JsonSerializable(outcome.v) ->
            HttpException(500, prefix \o "'" \o task \o "' failed: "
                               \o "Object of type coroutine is not JSON serializable")
      [] OTHER ->
            Resp("ok", 200, "", [plugin |-> name, task |-> task, result |-> outcome.v])

\* one call of a handler: the mapping it was passed, what it did, and the
\* submitted mapping as the dispatcher holds it after the call
Call(via, attr, submitted, payload, outcome) ==
    [via |-> via, attr |-> attr, submitted |-> submitted, payload |-> payload,
     outcome |-> outcome]

(***************************************************************************)
(* POST /plugins/{name}/{task}                                             *)
(***************************************************************************)
\* the handler fn was called with the payload sent and did what inv says
Handled(got, via, prefix, attr, name, task, payload, sent, inv) ==
    [resp |-> Answer(prefix, name, task, inv.outcome),
     got |-> got, obj |-> inv.obj,
     events |-> got.events \o inv.events,
     calls |-> <<Call(via, attr, payload, sent, inv.outcome)>>]

NotHandled(got, answer) ==
    [resp |-> answer, got |-> got, obj |-> got.obj,
     events |-> got.events, calls |-> <<>>]

\* a dispatcher that prefers the generic handler to the named one
DispatchInferFirst(got, name, task, payload, ho, lo) ==
    IF got.raised
    THEN NotHandled(got, Unhandled)
    ELSE IF got.ref = NoneRef
    THEN NotHandled(got, PluginNotFound(name))
    ELSE IF GetAttr(got.obj, "infer") # "none"
    THEN Handled(got, "infer", "Infer for ", "infer", name, task, payload,
                 Forwarded(payload, task), Invoke(got.obj, "infer", ho, lo))
    ELSE IF GetAttr(got.obj, task) # "none"
    THEN Handled(got, "task", "Task ", task, name, task, payload, payload,
                 Invoke(got.obj, task, ho, lo))
    ELSE NotHandled(got, TaskNotFound(task, name, got.obj.tasks))

\* a dispatcher that injects the task name into the submitted mapping itself
DispatchInPlace(got, name, task, payload, ho, lo) ==
    IF got.raised
    THEN NotHandled(got, Unhandled)
    ELSE IF got.ref = NoneRef
    THEN NotHandled(got, PluginNotFound(name))
    ELSE IF GetAttr(got.obj, task) # "none"
    THEN Handled(got, "task", "Task ", task, name, task, payload, payload,
                 Invoke(got.obj, task, ho, lo))
    ELSE IF GetAttr(got.obj, "infer") # "none"
    THEN Handled(got, "infer", "Infer for ", "infer", name, task,
                 Forwarded(payload, task), Forwarded(payload, task),
                 Invoke(got.obj, "infer", ho, lo))
    ELSE NotHandled(got, TaskNotFound(task, name, got.obj.tasks))

Dispatch(got, name, task, payload, ho, lo) ==
    IF got.raised
    THEN NotHandled(got, Unhandled)
    ELSE IF got.ref = NoneRef
    THEN NotHandled(got, PluginNotFound(name))
    ELSE IF GetAttr(got.obj, task) # "none"
    THEN Handled(got, "task", "Task ", task, name, task, payload, payload,
                 Invoke(got.obj, task, ho, lo))
    ELSE IF GetAttr(got.obj, "infer") # "none"
    THEN Handled(got, "infer", "Infer for ", "infer", name, task, payload,
                 Forwarded(payload, task), Invoke(got.obj, "infer", ho, lo))
    ELSE NotHandled(got, TaskNotFound(task, name, got.obj.tasks))

run_plugin_task(ld, m, h, name, task, payload, ho, lo) ==
    Dispatch(get_plugin_instance(ld, m, h, name, lo), name, task, payload, ho, lo)

(***************************************************************************)
(* Requests.                                                               *)
(***************************************************************************)
Names ==
    {"text_tools", "pdf_reader", "translator", "service", "echo", "Plugin",
     "ghost_plugin"}

TaskNames ==
    {"extract_text", "arabic_normalize", "translate", "run", "anything",
     "repeat", "infer"}

Payloads ==
    { [text |-> "abc"], [task |-> "other", text |-> "abc"] }

Req(op, name, task, payload) ==
    [op |-> op, name |-> name, task |-> task, payload |-> payload]

NoPlugin == [found |-> FALSE, raised |-> FALSE, ref |-> NoneRef, obj |-> NoneObj]

Imports(probe) ==
    \E i \in 1..Len(probe.events) : probe.events[i].op = "impl_import"

\* the load outcomes that can make a difference to this request
LoadChoices(name, task) ==
    IF Imports(run_plugin_task(loader, mods, heap, name, task, [text |-> "abc"],
                               Returns("r1"), "ok"))
    THEN LoadOutcomes ELSE {"ok"}

RunsHandler(probe) ==
    probe.calls # <<>> /\ probe.calls[1].outcome = Returns("r1")

\* the handler outcomes that can make a difference to this request
HandlerChoices(name, task, lo) ==
    IF RunsHandler(run_plugin_task(loader, mods, heap, name, task, [text |-> "abc"],
                                   Returns("r1"), lo))
    THEN HandlerOutcomes ELSE {Returns("r1")}

Init ==
    /\ loader \in Loaders
    /\ mods \in ModuleProfiles
    /\ heap = InitialHeap
    /\ req = Req("none", "", "", <<>>)
    /\ resp = NoResp
    /\ resolved = NoPlugin
    /\ trace = <<>>
    /\ calls = <<>>
    /\ history = NoHistory
    /\ threads = NoThreads
    /\ loop = NoLoop
    /\ store = NoStore

\* no request is being handled
Idle == req.op = "none"

\* the route answered the request with r; a POST leaves the resolved
\* instance as the call left it
Answered(request, r, got, obj) ==
    /\ req' = request
    /\ resp' = r.resp
    /\ trace' = r.events
    /\ calls' = IF request.op = "run" THEN r.calls ELSE <<>>
    /\ resolved' = [found |-> ~got.raised /\ got.ref # NoneRef,
                    raised |-> got.raised, ref |-> got.ref, obj |-> got.obj]
    /\ heap' = IF got.ref \in ObjIds THEN [heap EXCEPT ![got.ref] = obj] ELSE heap
    /\ UNCHANGED <<loader, mods, history, threads, loop, store>>

ListPlugins ==
    /\ Idle
    /\ Answered(Req("list", "", "", <<>>), list_plugins(loader, heap),
                NoPlugin, NoneObj)

GetPlugin ==
    /\ Idle
    /\ \E name \in Names :
         Answered(Req("get", name, "", <<>>), get_plugin(loader, heap, name),
                  NoPlugin, NoneObj)

Ran(request, r) == Answered(request, r, r.got, r.obj)

RunPluginTask ==
    /\ Idle
    /\ \E name \in Names, task \in TaskNames, payload \in Payloads :
         \E lo \in LoadChoices(name, task) :
           \E ho \in HandlerChoices(name, task, lo) :
             Ran(Req("run", name, task, payload),
                 run_plugin_task(loader, mods, heap, name, task, payload, ho, lo))

\* the response has been sent; the next request can be handled
Reply ==
    /\ ~Idle
    /\ req' = Req("none", "", "", <<>>)
    /\ resp' = NoResp
    /\ resolved' = NoPlugin
    /\ trace' = <<>>
    /\ calls' = <<>>
    /\ UNCHANGED <<loader, mods, heap, history, threads, loop, store>>

Next == ListPlugins \/ GetPlugin \/ RunPluginTask \/ Reply

Spec == Init /\ [][Next]_vars

(***************************************************************************)
(* Properties.                                                             *)
(***************************************************************************)
\* the dispatcher called a handler, and this is what the handler did
Called == req.op = "run" /\ calls # <<>>

DeclaredTasks == SeqToSet(resolved.obj.tasks.items)

CountOps(op) == Cardinality({i \in 1..Len(trace) : trace[i].op = op})

StartsWith(str, prefix) ==
    Len(str) >= Len(prefix) /\ SubSeq(str, 1, Len(prefix)) = prefix

EndsWith(str, suffix) ==
    Len(str) >= Len(suffix)
        /\ SubSeq(str, Len(str) - Len(suffix) + 1, Len(str)) = suffix

\* C1: when the task is declared and the plugin has a callable attribute
\* of that name, that handler is called exactly once, with the submitted
\* payload; when the handler ran and returned a value, the response is
\* 200 {plugin, task, result} with that value, and a Lazy Proxy forwarded
\* exactly one call to its backing implementation.
C1_NamedHandlerResult ==
    ( /\ req.op = "run"
      /\ resolved.found
      /\ req.task \in DeclaredTasks
      /\ GetAttr(resolved.obj, req.task) # "none" )
    => /\ Len(calls) = 1
       /\ calls[1].via = "task"
       /\ calls[1].attr = req.task
       /\ calls[1].payload = req.payload
       /\ ( calls[1].outcome.k = "return" /\ JsonSerializable(calls[1].outcome.v) )
          => /\ resp.kind = "ok" /\ resp.status = 200
             /\ resp.body = [plugin |-> req.name, task |-> req.task,
                             result |-> calls[1].outcome.v]
             /\ resolved.obj.kind = "lazy" => CountOps("impl_call") = 1

C1_Witness ==
    /\ Called
    /\ calls[1].via = "task"
    /\ req.task \in DeclaredTasks
    /\ resolved.obj.kind = "lazy"
    /\ calls[1].outcome = Returns("r2")
    /\ resp.kind = "ok"

\* C2: a handler failure that is not an HTTP error is answered 500 with
\* detail "Task 't' failed: <message>" ("Infer for 't' failed: <message>"
\* on the infer path); an HTTP error of the handler is answered with its
\* own status and detail.
C2_FailureNormalized ==
    /\ (Called /\ calls[1].outcome.k = "raise") =>
          /\ resp.kind = "http_error" /\ resp.status = 500
          /\ StartsWith(resp.detail,
                        IF calls[1].via = "task"
                        THEN "Task '" \o req.task \o "' failed: "
                        ELSE "Infer for '" \o req.task \o "' failed: ")
          /\ resp.detail = (IF calls[1].via = "task" THEN "Task '" ELSE "Infer for '")
                             \o req.task \o "' failed: " \o calls[1].outcome.msg
    /\ (Called /\ calls[1].outcome.k = "http") =>
          /\ resp.kind = "http_error"
          /\ resp.status = calls[1].outcome.status
          /\ resp.detail = calls[1].outcome.msg

C2_Witness ==
    /\ Called
    /\ calls[1].via = "infer"
    /\ calls[1].outcome = Raises("boom")
    /\ resp.detail = "Infer for '" \o req.task \o "' failed: boom"

C2_WitnessHttp ==
    /\ Called
    /\ calls[1].outcome.k = "http"
    /\ resp.status = 400

\* the names the catalog of the current loader shows
ListedNames ==
    LET inv == iter_plugin_instances(loader)
    IN  { serialize_meta(Deref(heap, inv.items[i])).name :
            i \in {k \in 1..Len(inv.items) :
                     /\ inv.items[k] # RaiseRef
                     /\ inv.lazy => inv.items[k] # NoneRef} }

\* some strategy of the enumerator or of the resolver gives an instance
\* for the name
Producible(name) ==
    \/ name \in ListedNames
    \/ \E lo \in LoadOutcomes :
         get_plugin_instance(loader, mods, heap, name, lo).ref # NoneRef

\* C3: for a name no discovery strategy produces, GET /plugins/{name} and
\* POST /plugins/{name}/{task} answer 404 "Plugin not found: {name}" and no
\* handler is called.
C3_UnknownNameIs404 ==
    (req.op \in {"get", "run"} /\ ~Producible(req.name))
    => /\ resp = PluginNotFound(req.name)
       /\ calls = <<>>

\* C4: a resolved plugin with neither a callable attribute named after the
\* task nor a callable infer is answered 404, the detail naming the task,
\* the plugin and the declared tasks, or ['<none>'] when the declared
\* tasks are empty or no list/tuple/set; no handler is called.
C4_TaskNotFoundListsTasks ==
    ( /\ req.op = "run"
      /\ resolved.found
      /\ GetAttr(resolved.obj, req.task) = "none"
      /\ GetAttr(resolved.obj, "infer") = "none" )
    => /\ resp.kind = "http_error" /\ resp.status = 404
       /\ resp.detail =
            "Task '" \o req.task \o "' not found in plugin '" \o req.name
            \o "'. Available: "
            \o (IF resolved.obj.tasks.shape \in {"list", "tuple", "set"}
                   /\ resolved.obj.tasks.items # <<>>
                THEN ListRepr(resolved.obj.tasks.items)
                ELSE "['<none>']")
       /\ calls = <<>>

C4_Witness ==
    /\ req.op = "run"
    /\ resolved.found
    /\ resolved.obj.tasks.shape = "list"
    /\ resolved.obj.tasks.items = <<>>
    /\ resp.status = 404
    /\ EndsWith(resp.detail, "Available: ['<none>']")

C4_WitnessListed ==
    /\ req.op = "run"
    /\ resolved.found
    /\ resp.status = 404
    /\ EndsWith(resp.detail, "Available: ['arabic_normalize', 'spellcheck_ar']")

\* C5: every failing response of GET /plugins/{name} and of
\* POST /plugins/{name}/{task} is a JSON body with a detail string and a
\* status in {404, 500}.
C5_FailuresAre404Or500 ==
    (req.op \in {"get", "run"} /\ resp.kind # "ok")
    => /\ resp.kind = "http_error"
       /\ resp.status \in {404, 500}

\* C6: _get_plugin_instance never raises to its caller.
C6_ResolutionNeverRaises ==
    req.op = "run" => ~resolved.raised

\* C7: resolution gives NotFound only after every strategy has been tried,
\* direct construction being the last of them.
C7_NotFoundOnlyAfterDirect ==
    (req.op = "run" /\ ~resolved.raised /\ resolved.ref = NoneRef)
    => CountOps("direct_import") = 1

IndexIn(names, x) == CHOOSE i \in 1..Len(names) : names[i] = x

\* the position of a resolution step in the order of the strategies
Rank(ev) ==
    CASE ev.op = "lookup" -> IndexIn(LookupFnNames, ev.arg)
      [] ev.op = "registry" -> 10 + IndexIn(RegistryNames, ev.arg)
      [] OTHER -> 20

ResolutionSteps ==
    {i \in 1..Len(trace) : trace[i].op \in {"lookup", "registry", "direct_import"}}

\* the instance the step gave for the requested name, NoneRef if none
GivenBy(ev) ==
    LET a == loader.attrs[ev.arg]
    IN  CASE ev.op = "lookup" ->
               IF LookupCall(a, req.name) = RaiseRef THEN NoneRef
               ELSE LookupCall(a, req.name)
          [] ev.op = "registry" ->
               IF a.kind = "dict" THEN ItemFor(a.items, req.name, 1) ELSE NoneRef
          [] OTHER -> NoneRef

\* C8: resolution runs the lookup functions, then the registries, then
\* direct construction, each in the order of its names and skipping none;
\* the first step that gives an instance ends resolution and its instance
\* is the result, so no module is imported and no Plugin constructed then.
C8_StrategiesInOrder ==
    (req.op = "run" /\ ~resolved.raised)
    => /\ \A i, j \in ResolutionSteps : i < j => Rank(trace[i]) < Rank(trace[j])
       /\ \A i \in ResolutionSteps :
            GivenBy(trace[i]) # NoneRef =>
                /\ \A j \in ResolutionSteps : j <= i
                /\ resolved.ref = GivenBy(trace[i])
                /\ CountOps("direct_import") = 0
                /\ CountOps("construct") = 0
       /\ \A i \in ResolutionSteps, k \in 1..Len(LookupFnNames) :
            (trace[i].op # "lookup" /\ loader.attrs[LookupFnNames[k]].callable)
                => \E j \in ResolutionSteps :
                      j < i /\ trace[j] = Ev("lookup", LookupFnNames[k])
       /\ \A i \in ResolutionSteps, k \in 1..Len(RegistryNames) :
            trace[i].op = "direct_import"
                => \E j \in ResolutionSteps :
                      j < i /\ trace[j] = Ev("registry", RegistryNames[k])

\* a later lookup function gives the instance after an earlier one raised
\* and another returned None, while a registry holds instances too
C8_Witness ==
    /\ req.op = "run"
    /\ resolved.found
    /\ resolved.ref = "tr"
    /\ \E i \in ResolutionSteps : trace[i] = Ev("lookup", "get")
    /\ loader.attrs["PLUGINS"].kind = "list"
    /\ CountOps("registry") = 0

C8_WitnessRegistry ==
    /\ req.op = "run"
    /\ resolved.found
    /\ CountOps("lookup") > 0
    /\ CountOps("registry") > 0
    /\ CountOps("direct_import") = 0

C10_NoDuplicateNames ==
    (req.op = "list" /\ resp.kind = "ok")
    => \A i, j \in 1..Len(resp.body) :
          i # j => resp.body[i].name # resp.body[j].name

\* the positions of the catalog functions that return a non-empty collection
NonEmptyFactories ==
    {i \in 1..Len(FactoryFnNames) :
        /\ loader.attrs[FactoryFnNames[i]].callable
        /\ ~loader.attrs[FactoryFnNames[i]].raises
        /\ loader.attrs[FactoryFnNames[i]].kind \in {"dict", "list", "tuple", "set", "gen"}
        /\ Len(loader.attrs[FactoryFnNames[i]].items) > 0}

\* the positions of the registry containers that hold instances
NonEmptyRegistries ==
    {i \in 1..Len(RegistryNames) :
        /\ loader.attrs[RegistryNames[i]].kind \in {"dict", "list", "tuple"}
        /\ Len(loader.attrs[RegistryNames[i]].items) > 0}

Least(S) == CHOOSE i \in S : \A j \in S : i <= j

\* the inventory of the first strategy that yields a non-empty one
FirstNonEmptyInventory ==
    IF NonEmptyFactories # {}
    THEN [lazy |-> FALSE,
          items |-> Refs(loader.attrs[FactoryFnNames[Least(NonEmptyFactories)]].items)]
    ELSE IF NonEmptyRegistries # {}
    THEN [lazy |-> FALSE,
          items |-> Refs(loader.attrs[RegistryNames[Least(NonEmptyRegistries)]].items)]
    ELSE [lazy |-> FromNames(loader, 1).lazy, items |-> FromNames(loader, 1).items]

\* C11: the catalog of GET /plugins is the inventory of the first strategy,
\* in the order catalog functions, registries, names-plus-lookup, whose
\* inventory is not empty; an empty inventory of an earlier strategy does
\* not end the search.
C11_FirstNonEmptyStrategy ==
    (req.op = "list" /\ resp.kind = "ok")
    => resp.body = Metas(heap, FirstNonEmptyInventory, 1, <<>>).metas

\* no strategy gives an instance: every inventory is absent, empty, raises
\* on the way, or holds only names whose lookup gives None or raises
NothingYielded ==
    /\ NonEmptyFactories = {}
    /\ NonEmptyRegistries = {}
    /\ \A k \in 1..Len(FromNames(loader, 1).items) :
          FromNames(loader, 1).items[k] \in {NoneRef, RaiseRef}

\* C12: GET /plugins never answers with an error; when no strategy yields
\* an instance, it answers 200 with an empty array.
C12_EnumerationNeverFails ==
    req.op = "list"
    => /\ resp.kind = "ok" /\ resp.status = 200
       /\ NothingYielded => resp.body = <<>>

(***************************************************************************)
(* One Lazy Proxy used sequentially: load() and task calls made on the     *)
(* proxy named by req, one after the other, each recorded in history.      *)
(***************************************************************************)
\* the proxy in use
InUse == req.name

OpsOn(id) ==
    Cardinality({i \in 1..Len(history[id]) :
                    history[id][i].op \in {"load", "task", "unknown"}})

InitProxy ==
    /\ loader = BrokenLoader
    /\ mods \in ModuleProfiles
    /\ heap = InitialHeap
    /\ \E id \in LazyIds : req = Req("use", id, "", <<>>)
    /\ resp = NoResp
    /\ resolved = NoPlugin
    /\ trace = <<>>
    /\ calls = <<>>
    /\ history = NoHistory
    /\ threads = NoThreads
    /\ loop = NoLoop
    /\ store = NoStore

\* the call made the steps r.events and left the proxy as r.obj; made is
\* the call of the backing method, answer what the caller got
Stepped(id, call, r, made, answer) ==
    /\ heap' = [heap EXCEPT ![id] = r.obj]
    /\ history' = [history EXCEPT ![id] = @ \o <<call>> \o r.events]
    /\ calls' = made
    /\ resp' = answer
    /\ UNCHANGED <<loader, mods, req, resolved, trace, threads, loop, store>>

\* what the caller of a method gets: its value, or the exception it raised
Got(outcome) == Resp(outcome.k, outcome.status, outcome.msg, outcome.v)

\* the call of the backing method that _call made, if it made one
Forwards(r, attr, payload, ho) ==
    IF r.events # <<>> /\ r.events[Len(r.events)] = Ev("impl_call", attr)
    THEN <<Call("proxy", attr, payload, payload, ho)>>
    ELSE <<>>

\* a __getattr__ that loads the backing implementation before it looks at
\* tasks
GetAttrLoadsFirst(obj, ld, attr) ==
    [obj |-> ld.obj, outcome |-> Raises(attr), events |-> ld.events]

\* __getattr__(item) for a name not in tasks: AttributeError(item)
GetAttrFails(obj, ld, attr) ==
    [obj |-> obj, outcome |-> Raises(attr), events |-> <<>>]

\* the names asked of a proxy
ProxyAttrs == {"extract_text", "arabic_normalize", "translate", "nothing"}

\* what importing, constructing and loading the backing implementation can
\* do on this call
LoadChoicesOf(obj) == IF obj.impl = "unset" THEN LoadOutcomes ELSE {"ok"}

\* plugin.load()
ProxyLoad ==
    /\ req.op = "use"
    /\ OpsOn(InUse) < MaxOps
    /\ \E lo \in LoadChoicesOf(heap[InUse]) :
         Stepped(InUse, Ev("load", InUse), LazyLoad(heap[InUse], lo), <<>>, NoResp)

\* plugin.<attr>(payload) for a declared task
ProxyTask ==
    /\ req.op = "use"
    /\ OpsOn(InUse) < MaxOps
    /\ \E attr \in SeqToSet(heap[InUse].tasks.items), payload \in Payloads :
         \E lo \in LoadChoicesOf(heap[InUse]), ho \in {Returns("r1"), Raises("boom")} :
           Stepped(InUse, Ev("task", attr), ProxyCall(heap[InUse], attr, ho, lo),
                   Forwards(ProxyCall(heap[InUse], attr, ho, lo), attr, payload, ho),
                   Got(ProxyCall(heap[InUse], attr, ho, lo).outcome))

\* plugin.<attr> for a name that is neither declared nor otherwise defined
ProxyUnknown ==
    /\ req.op = "use"
    /\ OpsOn(InUse) < MaxOps
    /\ \E attr \in ProxyAttrs :
         /\ GetAttr(heap[InUse], attr) = "none"
         /\ \E lo \in LoadChoicesOf(heap[InUse]) :
              Stepped(InUse, Ev("unknown", attr),
                      GetAttrFails(heap[InUse], LazyLoad(heap[InUse], lo), attr), <<>>,
                      Got(GetAttrFails(heap[InUse], LazyLoad(heap[InUse], lo),
                                       attr).outcome))

NextProxy == ProxyLoad \/ ProxyTask \/ ProxyUnknown

ProxySpec == InitProxy /\ [][NextProxy]_vars

\* the positions in the history of a proxy of the steps op with result arg
StepsOf(id, op, arg) ==
    {i \in 1..Len(history[id]) : history[id][i] = Ev(op, arg)}

StepsNamed(id, op) ==
    {i \in 1..Len(history[id]) : history[id][i].op = op}

ConstructedAtMostOnce ==
    \A id \in LazyIds : Cardinality(StepsOf(id, "impl_construct", "ok")) <= 1

\* a load() on a proxy that holds its backing implementation changes
\* neither _impl nor tasks and makes no step on the backing implementation
LaterLoadIsNoOp ==
    \A id \in LazyIds :
        ( /\ history'[id] # history[id]
          /\ history'[id][Len(history[id]) + 1].op = "load"
          /\ heap[id].impl # "unset" )
        => /\ heap'[id] = heap[id]
           /\ Len(history'[id]) = Len(history[id]) + 1

\* C13: on one Lazy Proxy used sequentially the backing implementation is
\* constructed at most once, and every load() made once it is constructed
\* leaves _impl and tasks unchanged and does not call its load() again.
C13_LoadIdempotent == []ConstructedAtMostOnce /\ [][LaterLoadIsNoOp]_vars

\* two load() calls were made after the one that constructed the backing
\* implementation and adopted its tasks
C13_Witness ==
    /\ req.op = "use"
    /\ heap[InUse].backing = "pdf_reader"
    /\ heap[InUse].tasks.items = <<"extract_text">>
    /\ Cardinality(StepsNamed(InUse, "load")) = 3
    /\ Cardinality(StepsOf(InUse, "impl_construct", "ok")) = 1
    /\ Cardinality(StepsNamed(InUse, "impl_load")) = 1

\* C15: once a task call has been forwarded to the backing implementation
\* of a Lazy Proxy, the load() of that implementation has been invoked
\* exactly once, before the first forwarded call.
C15_LoadOnceBeforeFirstTask ==
    \A id \in LazyIds :
        (StepsNamed(id, "impl_call") # {} /\ Services[heap[id].backing].hasLoad)
        => /\ Cardinality(StepsNamed(id, "impl_load")) = 1
           /\ \A i \in StepsNamed(id, "impl_load"), j \in StepsNamed(id, "impl_call") :
                 i < j

\* load(), then two task calls forwarded to the backing implementation
C15_Witness ==
    /\ req.op = "use"
    /\ Cardinality(StepsNamed(InUse, "load")) = 1
    /\ Cardinality(StepsNamed(InUse, "impl_call")) = 2
    /\ Cardinality(StepsOf(InUse, "impl_load", "ok")) = 1

(***************************************************************************)
(* Concurrent callers of the Lazy Proxies.  Each caller makes one call,    *)
(* load() or a task, on one proxy, and runs the statements of load() and   *)
(* _call one at a time; the callers interleave between statements.  The    *)
(* value of _impl is the name of the object built.                         *)
(***************************************************************************)
Callers == 1..MaxThreads

\* the object that caller t gets from Impl()
ImplName(t) == "impl" \o ToString(t)

InitThreads ==
    /\ loader = BrokenLoader
    /\ mods \in ModuleProfiles
    /\ heap = InitialHeap
    /\ req = Req("threads", "", "", <<>>)
    /\ resp = NoResp
    /\ resolved = NoPlugin
    /\ trace = <<>>
    /\ calls = <<>>
    /\ history = NoHistory
    /\ threads \in [Callers ->
                      { [target |-> id, op |-> "load", attr |-> "", pc |-> "test"] :
                          id \in LazyIds }
                      \cup
                      { [target |-> id, op |-> "task", attr |-> "", pc |-> "getattr"] :
                          id \in LazyIds }]
    /\ loop = NoLoop
    /\ store = NoStore

At(t, pc) == threads # NoThreads /\ threads[t].pc = pc

Self(t) == heap[threads[t].target]

\* caller t goes on at pc
Goto(t, pc) == threads' = [threads EXCEPT ![t].pc = pc]

\* where load() returns to: into _call, or to the caller of load()
Return(t) == Goto(t, IF threads[t].op = "task" THEN "forward" ELSE "done")

Recorded(t, ev) ==
    history' = [history EXCEPT ![threads[t].target] = Append(@, ev)]

Fixed == UNCHANGED <<loader, mods, req, resp, resolved, trace, calls, loop, store>>

\* __getattr__(item): `if item in self.tasks` gives _call, else AttributeError
ThreadGetAttr(t) ==
    /\ At(t, "getattr")
    /\ \/ /\ Self(t).tasks.items = <<>>
          /\ Goto(t, "done")
       \/ \E attr \in SeqToSet(Self(t).tasks.items) :
             threads' = [threads EXCEPT ![t].attr = attr, ![t].pc = "test"]
    /\ UNCHANGED <<heap, history>>
    /\ Fixed

\* if self._impl is None:
ThreadTest(t) ==
    /\ At(t, "test")
    /\ IF Self(t).impl = "unset" THEN Goto(t, "import") ELSE Return(t)
    /\ UNCHANGED <<heap, history>>
    /\ Fixed

\* mod = importlib.import_module(...); Impl = mod.Plugin
ThreadImport(t) ==
    /\ At(t, "import")
    /\ Goto(t, "construct")
    /\ UNCHANGED <<heap, history>>
    /\ Fixed

\* self._impl = Impl()
ThreadConstruct(t) ==
    /\ At(t, "construct")
    /\ heap' = [heap EXCEPT ![threads[t].target].impl = ImplName(t)]
    /\ Recorded(t, Ev("impl_construct", ImplName(t)))
    /\ Goto(t, "impl_load")
    /\ Fixed

\* if hasattr(self._impl, "load"): self._impl.load()
ThreadImplLoad(t) ==
    /\ At(t, "impl_load")
    /\ IF Services[Self(t).backing].hasLoad
       THEN Recorded(t, Ev("impl_load", Self(t).impl))
       ELSE UNCHANGED history
    /\ heap' = [heap EXCEPT ![threads[t].target].implLoaded = TRUE]
    /\ Goto(t, "adopt")
    /\ Fixed

\* if not self.tasks: adopt the tasks of the backing implementation
ThreadAdopt(t) ==
    /\ At(t, "adopt")
    /\ heap' = IF ~TasksTruthy(Self(t).tasks)
                  /\ IsListTupleSet(Services[Self(t).backing].tasks)
               THEN [heap EXCEPT ![threads[t].target].tasks =
                        TasksOf("list", Services[Self(t).backing].tasks.items)]
               ELSE heap
    /\ Return(t)
    /\ UNCHANGED history
    /\ Fixed

\* return getattr(self._impl, item)(payload)
ThreadForward(t) ==
    /\ At(t, "forward")
    /\ Recorded(t, Ev("impl_call", threads[t].attr))
    /\ Goto(t, "done")
    /\ UNCHANGED heap
    /\ Fixed

NextThreads ==
    \E t \in Callers :
        \/ ThreadGetAttr(t)
        \/ ThreadTest(t)
        \/ ThreadImport(t)
        \/ ThreadConstruct(t)
        \/ ThreadImplLoad(t)
        \/ ThreadAdopt(t)
        \/ ThreadForward(t)

ThreadSpec == InitThreads /\ [][NextThreads]_vars

\* C14: under any interleaving of concurrent load() and task calls the
\* backing implementation of a proxy is constructed at most once, and no
\* two proxies hold the same backing implementation.
C14_ConstructedOnceUnderInterleaving ==
    /\ \A id \in LazyIds : Cardinality(StepsNamed(id, "impl_construct")) <= 1
    /\ \A p, q \in LazyIds :
          (p # q /\ heap[p].impl # "unset") => heap[p].impl # heap[q].impl

\* the handler calls among the steps of the last request
HandlerSteps == {i \in 1..Len(trace) : trace[i].op \in {"call", "impl_call"}}

\* C16: one dispatch invokes at most one handler: the attribute named after
\* the task when it is callable, else infer when it is callable, else none;
\* infer is not invoked when the named attribute is callable, whatever the
\* named handler does.
C16_AtMostOneHandler ==
    req.op = "run"
    => /\ Len(calls) <= 1
       /\ Cardinality(HandlerSteps) <= 1
       /\ ~resolved.found => calls = <<>>
       /\ (resolved.found /\ GetAttr(resolved.obj, req.task) # "none")
            => /\ Len(calls) = 1
               /\ calls[1].via = "task" /\ calls[1].attr = req.task
               /\ \A i \in HandlerSteps : trace[i].arg = req.task
       /\ ( /\ resolved.found
            /\ GetAttr(resolved.obj, req.task) = "none"
            /\ GetAttr(resolved.obj, "infer") # "none" )
            => /\ Len(calls) = 1
               /\ calls[1].via = "infer" /\ calls[1].attr = "infer"
       /\ ( /\ resolved.found
            /\ GetAttr(resolved.obj, req.task) = "none"
            /\ GetAttr(resolved.obj, "infer") = "none" )
            => calls = <<>>

\* the named handler of a plugin that also has infer failed, and infer was
\* not called
C16_Witness ==
    /\ req.op = "run"
    /\ resolved.found
    /\ req.task = "repeat"
    /\ GetAttr(resolved.obj, "infer") # "none"
    /\ calls = <<Call("task", "repeat", req.payload, req.payload, Raises("boom"))>>
    /\ resp.status = 500

\* C17: when dispatch falls back to infer, infer is passed the submitted
\* payload with the key task set to the invoked task name if the payload has
\* no such key, and the submitted payload, its own task value kept, if it has
\* one; the submitted mapping itself is left as it was submitted.
ViaInfer == req.op = "run" /\ calls # <<>> /\ calls[1].via = "infer"

C17_InferPayload ==
    ViaInfer =>
        /\ DOMAIN calls[1].payload = (DOMAIN req.payload) \cup {"task"}
        /\ \A k \in DOMAIN req.payload : calls[1].payload[k] = req.payload[k]
        /\ "task" \notin DOMAIN req.payload => calls[1].payload["task"] = req.task
        /\ calls[1].submitted = req.payload

C17_Witness ==
    /\ ViaInfer
    /\ req.task = "anything"
    /\ "task" \notin DOMAIN req.payload
    /\ calls[1].payload = [task |-> "anything", text |-> "abc"]
    /\ resp.kind = "ok"

C17_WitnessOwnTask ==
    /\ ViaInfer
    /\ req.task = "anything"
    /\ req.payload = [task |-> "other", text |-> "abc"]
    /\ calls[1].payload = req.payload

\* C18: a handler whose invocation is asynchronous (an async function, or the
\* task callable of a Lazy Proxy forwarding to an async method of the backing
\* implementation) is awaited: the response is the one a synchronous handler
\* doing the same would get, its result the awaited value.
AsyncMember ==
    /\ GetAttr(resolved.obj, calls[1].attr) = "member"
    /\ resolved.obj.members[calls[1].attr] = "async"

AsyncBacking ==
    /\ GetAttr(resolved.obj, calls[1].attr) = "proxy"
    /\ calls[1].attr \in DOMAIN Services[resolved.obj.backing].methods
    /\ Services[resolved.obj.backing].methods[calls[1].attr] = "async"
    /\ CountOps("impl_call") = 1

AsSynchronous ==
    \E ho \in HandlerOutcomes :
        /\ calls[1].outcome = ho
        /\ resp = Answer(IF calls[1].via = "task" THEN "Task " ELSE "Infer for ",
                         req.name, req.task, ho)

C18_AsyncHandledAsSync ==
    (req.op = "run" /\ calls # <<>> /\ (AsyncMember \/ AsyncBacking)) => AsSynchronous

\* the same for async functions found on the plugin object itself
C18_AsyncMembersAwaited ==
    (req.op = "run" /\ calls # <<>> /\ AsyncMember) => AsSynchronous

(***************************************************************************)
(* The requests of one event loop.  run_plugin_task is a coroutine          *)
(* function: a request's coroutine holds the loop from the moment it is     *)
(* started until it is done or suspends at an await.  Resolution, getattr   *)
(* and a synchronous fn(payload) suspend nowhere; `await fn(payload)`       *)
(* suspends while the handler waits.                                        *)
(***************************************************************************)
Arrivals == 1..MaxRequests

LoopRequests ==
    { <<"text_tools", "arabic_normalize">>, <<"pdf_reader", "extract_text">>,
      <<"echo", "anything">>, <<"ghost_plugin", "run">> }

LoopLoaders ==
    {BrokenLoader}
    \cup { Loader(Only(InitFnNames, <<>>), Only(LookupFnNames, <<>>), r,
                  Only(FactoryFnNames, <<>>), Only(NameApiNames, <<>>)) :
             r \in RegistryProfiles }

LoopOutcomes == {Returns("r1"), Raises("boom")}

InitLoop ==
    /\ loader \in LoopLoaders
    /\ mods \in ModuleProfiles
    /\ heap = InitialHeap
    /\ req = Req("loop", "", "", <<>>)
    /\ resp = NoResp
    /\ resolved = NoPlugin
    /\ trace = <<>>
    /\ calls = <<>>
    /\ history = NoHistory
    /\ threads = NoThreads
    /\ loop \in { [running |-> 0, reqs |-> rs] :
                    rs \in [Arrivals ->
                              { [name |-> nt[1], task |-> nt[2], pc |-> "arrived",
                                 result |-> NoResp] : nt \in LoopRequests }] }
    /\ store = NoStore

\* request r is at pc
Position(r, pc) == loop.reqs # <<>> /\ loop.reqs[r].pc = pc

\* where the coroutine of a request stands once it has run as far as it can
\* without suspending
Suspension(res) ==
    IF res.calls = <<>> THEN "answered"
    ELSE IF IsCoroutineFunction(res.got.obj, res.calls[1].attr) THEN "awaiting"
    ELSE "handler"

Dispatched(r, res, pc) ==
    /\ loop' = [running |-> IF pc = "handler" THEN r ELSE 0,
                reqs |-> [loop.reqs EXCEPT ![r].pc = pc, ![r].result = res.resp]]
    /\ heap' = IF res.got.ref \in ObjIds
               THEN [heap EXCEPT ![res.got.ref] = res.obj] ELSE heap
    /\ UNCHANGED <<loader, mods, req, resp, resolved, trace, calls, history, threads,
                   store>>

LoopResult(r, ho) ==
    run_plugin_task(loader, mods, heap, loop.reqs[r].name, loop.reqs[r].task,
                    [text |-> "abc"], ho, "ok")

\* the loop starts the coroutine of request r
LoopDispatch(r) ==
    /\ Position(r, "arrived")
    /\ loop.running = 0
    /\ \E ho \in LoopOutcomes :
         Dispatched(r, LoopResult(r, ho), Suspension(LoopResult(r, ho)))

\* result = fn(payload) returns or raises; the response is built
HandlerReturns(r) ==
    /\ Position(r, "handler")
    /\ loop.running = r
    /\ loop' = [running |-> 0, reqs |-> [loop.reqs EXCEPT ![r].pc = "answered"]]
    /\ UNCHANGED <<loader, mods, heap, req, resp, resolved, trace, calls, history,
                   threads, store>>

\* the awaited handler is done; the loop resumes the coroutine
AwaitResumes(r) ==
    /\ Position(r, "awaiting")
    /\ loop.running = 0
    /\ loop' = [loop EXCEPT !.reqs[r].pc = "answered"]
    /\ UNCHANGED <<loader, mods, heap, req, resp, resolved, trace, calls, history,
                   threads, store>>

NextLoop ==
    \E r \in Arrivals : LoopDispatch(r) \/ HandlerReturns(r) \/ AwaitResumes(r)

\* a free loop runs every coroutine that is ready; how long a handler takes
\* is not bounded
LoopSpec ==
    InitLoop /\ [][NextLoop]_vars /\ \A r \in Arrivals : WF_vars(LoopDispatch(r))

InHandler(r) == Position(r, "handler") \/ Position(r, "awaiting")

Unrelated(r1, r2) == r1 # r2 /\ loop.reqs[r1].name # loop.reqs[r2].name

\* C19: while the handler of one request is running, synchronous or awaited,
\* a request for a different plugin that has arrived can be resolved and
\* dispatched without waiting for that handler to finish.
C19_UnrelatedNotBlocked ==
    \A r1, r2 \in Arrivals :
        (InHandler(r1) /\ Position(r2, "arrived") /\ Unrelated(r1, r2))
            => ENABLED LoopDispatch(r2)

\* the same for awaited handlers alone
C19_AwaitedDoesNotBlock ==
    \A r1, r2 \in Arrivals :
        (Position(r1, "awaiting") /\ Position(r2, "arrived") /\ Unrelated(r1, r2))
            => ENABLED LoopDispatch(r2)

C19_AwaitedWitness ==
    \E r1, r2 \in Arrivals :
        Position(r1, "awaiting") /\ Position(r2, "handler") /\ Unrelated(r1, r2)

\* C20: the backing implementation of a Lazy Proxy is neither constructed
\* nor loaded by constructing the proxy, by listing or resolving the plugin
\* (GET /plugins, GET /plugins/{name}), or by a request that ends without a
\* task being invoked; only the invocation of a task constructs it.
NoTaskInvoked ==
    \/ req.op \in {"list", "get"}
    \/ req.op = "run" /\ calls = <<>>

BackingUntouched ==
    /\ CountOps("impl_import") = 0
    /\ CountOps("impl_construct") = 0
    /\ CountOps("impl_load") = 0

C20_BackingOnlyOnInvocation == NoTaskInvoked => BackingUntouched

\* the same for the two GET routes alone
C20_GetLeavesBackingUntouched == req.op \in {"list", "get"} => BackingUntouched

(***************************************************************************)
(* Uploads and the PDF reader: pathlib on a POSIX file system without       *)
(* symbolic links.  A path is a record of its parts; a file is a string of  *)
(* bytes.                                                                   *)
(***************************************************************************)
Ch(str, i) == SubSeq(str, i, i)

\* the parts of a path string: empty parts and "." are dropped, ".." is kept
RECURSIVE Parts(_, _, _, _)
Parts(str, i, cur, acc) ==
    IF i > Len(str)
    THEN (IF cur \in {"", "."} THEN acc ELSE Append(acc, cur))
    ELSE IF Ch(str, i) = "/"
    THEN Parts(str, i + 1, "", IF cur \in {"", "."} THEN acc ELSE Append(acc, cur))
    ELSE Parts(str, i + 1, cur \o Ch(str, i), acc)

\* Path(str)
PathOf(str) ==
    [abs |-> Len(str) > 0 /\ Ch(str, 1) = "/", parts |-> Parts(str, 1, "", <<>>)]

RECURSIVE Joined(_, _)
Joined(parts, i) ==
    IF i > Len(parts) THEN ""
    ELSE parts[i] \o (IF i < Len(parts) THEN "/" ELSE "") \o Joined(parts, i + 1)

\* str(path)
PathStr(path) ==
    IF path.abs THEN "/" \o Joined(path.parts, 1)
    ELSE IF path.parts = <<>> THEN "."
    ELSE Joined(path.parts, 1)

\* path.name
PathName(path) == IF path.parts = <<>> THEN "" ELSE path.parts[Len(path.parts)]

\* left / right
Slash(left, right) ==
    IF right.abs THEN right ELSE [abs |-> left.abs, parts |-> left.parts \o right.parts]

\* the process's working directory
Cwd == PathOf("/srv")

RECURSIVE Collapsed(_, _, _)
Collapsed(parts, i, acc) ==
    IF i > Len(parts) THEN acc
    ELSE IF parts[i] = ".."
    THEN Collapsed(parts, i + 1, IF acc = <<>> THEN acc ELSE SubSeq(acc, 1, Len(acc) - 1))
    ELSE Collapsed(parts, i + 1, Append(acc, parts[i]))

\* path.resolve(): absolute, with the ".." parts collapsed
Resolve(path) == [abs |-> TRUE, parts |-> Collapsed(Slash(Cwd, path).parts, 1, <<>>)]

\* the file the operating system opens for a path
OsPath(path) == PathStr(Resolve(path))

\* the files on disk, by the path the operating system knows them by
InitialFiles ==
    [path \in {"/srv/secret.pdf", "/srv/uploads_evil/x.pdf", "/srv/uploads/notes.txt"} |->
        IF path = "/srv/uploads/notes.txt" THEN "hello" ELSE "%PDF-1.4"]

Written(files, path, data) ==
    [q \in (DOMAIN files) \cup {path} |-> IF q = path THEN data ELSE files[q]]

Removed(files, path) == [q \in (DOMAIN files) \ {path} |-> files[q]]

\* file.read(n) at position pos
Read(data, pos, n) ==
    IF pos > Len(data) THEN "" ELSE SubSeq(data, pos, Min(pos + n - 1, Len(data)))

\* get_settings(): UPLOAD_DIR and UPLOAD_MAX_MB
Settings ==
    [UPLOAD_DIR : {"/srv/uploads", "uploads"}, UPLOAD_MAX_MB : {MaxMb}]

(***************************************************************************)
(* app/utils/storage.py                                                    *)
(***************************************************************************)
LocalStorage(base_dir, subdir, max_mb) ==
    [base_dir |-> PathOf(base_dir), subdir |-> subdir, max_bytes |-> max_mb * MiB]

CHUNK == MiB

SafeAlphabet == "ABCDEFGHIJKLMNOPQRSTUVWXYZabcdefghijklmnopqrstuvwxyz0123456789._-"

SafeChars == {Ch(SafeAlphabet, i) : i \in 1..Len(SafeAlphabet)}

\* re.sub(r"[^A-Za-z0-9._-]+", "_", name): every run of other characters
\* becomes one underscore
RECURSIVE Sanitized(_, _, _)
Sanitized(name, i, inRun) ==
    IF i > Len(name) THEN ""
    ELSE IF Ch(name, i) \in SafeChars THEN Ch(name, i) \o Sanitized(name, i + 1, FALSE)
    ELSE (IF inRun THEN "" ELSE "_") \o Sanitized(name, i + 1, TRUE)

OrFilePdf(name) == IF name = "" THEN "file.pdf" ELSE name

SafeName(filename) == OrFilePdf(Sanitized(PathName(PathOf(filename)), 1, FALSE))

\* the loop of lines 47-57: what has been written when it ends, and whether
\* it ended by raising
RECURSIVE WriteChunks(_, _, _, _)
WriteChunks(data, pos, total, max_bytes) ==
    IF Read(data, pos, CHUNK) = ""
    THEN [total |-> total, raised |-> FALSE]
    ELSE IF total + Len(Read(data, pos, CHUNK)) > max_bytes
    THEN [total |-> total + Len(Read(data, pos, CHUNK)), raised |-> TRUE]
    ELSE WriteChunks(data, pos + CHUNK, total + Len(Read(data, pos, CHUNK)), max_bytes)

TooLarge(max_bytes) ==
    HttpException(413, "File too large (> " \o ToString(max_bytes \div MiB) \o " MB).")

\* a storage whose rel_path is the stored name without the subdirectory
SavedNameOnly(storage, dest, safe_name, total) ==
    Resp("ok", 200, "",
         [filename |-> safe_name, stored_as |-> PathName(dest), path |-> PathStr(dest),
          rel_path |-> PathName(dest), size_bytes |-> total])

Saved(storage, dest, safe_name, total) ==
    Resp("ok", 200, "",
         [filename |-> safe_name, stored_as |-> PathName(dest), path |-> PathStr(dest),
          rel_path |-> PathStr(Slash(PathOf(storage.subdir), PathOf(PathName(dest)))),
          size_bytes |-> total])

\* a storage that leaves the partial file behind when the loop raised
StreamedKeepsPartial(storage, files, data, dest, safe_name, w) ==
    IF w.raised
    THEN [files |-> Written(files, OsPath(dest), Read(data, 1, w.total)),
          resp |-> TooLarge(storage.max_bytes)]
    ELSE [files |-> Written(files, OsPath(dest), Read(data, 1, w.total)),
          resp |-> Saved(storage, dest, safe_name, w.total)]

\* dest is written chunk by chunk and unlinked again when the loop raised
Streamed(storage, files, data, dest, safe_name, w) ==
    IF w.raised
    THEN [files |-> Removed(Written(files, OsPath(dest), Read(data, 1, w.total)),
                            OsPath(dest)),
          resp |-> TooLarge(storage.max_bytes)]
    ELSE [files |-> Written(files, OsPath(dest), Read(data, 1, w.total)),
          resp |-> Saved(storage, dest, safe_name, w.total)]

Dest(storage, uuid, safe_name) ==
    Slash(Slash(storage.base_dir, PathOf(storage.subdir)),
          PathOf(uuid \o "_" \o safe_name))

save_pdf(storage, files, upload, uuid) ==
    IF upload.filename = ""
    THEN [files |-> files, resp |-> HttpException(400, "No file uploaded")]
    ELSE IF Read(upload.data, 1, 5) # "%PDF-"
    THEN [files |-> files,
          resp |-> HttpException(400, "Invalid PDF (missing %PDF- header).")]
    ELSE Streamed(storage, files, upload.data,
                  Dest(storage, uuid, SafeName(upload.filename)),
                  SafeName(upload.filename),
                  WriteChunks(upload.data, 1, 0, storage.max_bytes))

(***************************************************************************)
(* app/routes/uploads.py                                                   *)
(***************************************************************************)
OkTrue(saved) ==
    [files |-> saved.files,
     resp |-> IF saved.resp.kind = "ok"
              THEN [saved.resp EXCEPT !.body = [ok |-> TRUE] @@ saved.resp.body]
              ELSE saved.resp]

upload_pdf(settings, files, upload, uuid) ==
    OkTrue(save_pdf(LocalStorage(settings.UPLOAD_DIR, "pdf", settings.UPLOAD_MAX_MB),
                    files, upload, uuid))

(***************************************************************************)
(* app/services/pdf_reader/service.py                                      *)
(***************************************************************************)
Refused(status, detail, opened) ==
    [ok |-> FALSE, target |-> "", failure |-> RaisesHttp(status, detail), opened |-> opened]

\* lines 37-49: the checks on the resolved target, in the order of the code
Checked(files, base, target) ==
    IF target \notin DOMAIN files
    THEN Refused(404, "File not found.", {})
    ELSE IF ~StartsWith(target, base)
    THEN Refused(400, "Access outside uploads is not allowed.", {})
    ELSE IF Read(files[target], 1, 5) # "%PDF-"
    THEN Refused(400, "Invalid PDF header.", {target})
    ELSE [ok |-> TRUE, target |-> target, failure |-> Returns(target),
          opened |-> {target}]

\* payload.get(key), with "" for a missing key
PayloadGet(payload, key) == IF key \in DOMAIN payload THEN payload[key] ELSE ""

resolve_path(settings, files, payload) ==
    IF PayloadGet(payload, "rel_path") # ""
    THEN Checked(files, PathStr(Resolve(PathOf(settings.UPLOAD_DIR))),
                 PathStr(Resolve(Slash(Resolve(PathOf(settings.UPLOAD_DIR)),
                                       PathOf(payload["rel_path"])))))
    ELSE IF PayloadGet(payload, "path") # ""
    THEN Checked(files, PathStr(Resolve(PathOf(settings.UPLOAD_DIR))),
                 PathStr(Resolve(PathOf(payload["path"]))))
    ELSE Refused(400, "Provide 'rel_path' or 'path' to the PDF.", {})

\* what pdfminer makes of a file: its text, or a failure
Extractions == {"abc", "fails"}

Extracted(found, text) ==
    IF ~found.ok
    THEN [outcome |-> found.failure, opened |-> found.opened]
    ELSE IF text = "fails"
    THEN [outcome |-> RaisesHttp(500, "Text extraction failed: boom"),
          opened |-> found.opened]
    ELSE [outcome |-> Returns([ok |-> TRUE, plugin |-> "pdf_reader",
                               task |-> "extract_text", file |-> found.target,
                               text_len |-> Len(text), text |-> text]),
          opened |-> found.opened]

extract_text(settings, files, payload, text) ==
    Extracted(resolve_path(settings, files, payload), text)

(***************************************************************************)
(* Uploads followed by extractions.                                        *)
(***************************************************************************)
Filenames == {"", "a.pdf", "../my file.pdf"}

\* n bytes
RECURSIVE Fill(_)
Fill(n) == IF n <= 0 THEN "" ELSE "x" \o Fill(n - 1)

\* uploads around the header and around the size limit
Datas(max_bytes) ==
    {"%PD", "hello"}
    \cup {"%PDF-" \o Fill(n - 5) : n \in {5, max_bytes, max_bytes + 1}}

Uuid(n) == "u" \o ToString(n)

NoUpload == [filename |-> "", data |-> ""]
NoPayload == <<>>
NoOut == [outcome |-> Returns(""), opened |-> {}]

InitStore ==
    /\ loader = BrokenLoader
    /\ mods = [pdf_reader |-> "LazyPdfReader"]
    /\ heap = InitialHeap
    /\ req = Req("store", "", "", <<>>)
    /\ resp = NoResp
    /\ resolved = NoPlugin
    /\ trace = <<>>
    /\ calls = <<>>
    /\ history = NoHistory
    /\ threads = NoThreads
    /\ loop = NoLoop
    /\ store \in { [settings |-> st, files |-> InitialFiles, op |-> "none", made |-> 0,
                    upload |-> NoUpload, uuid |-> "", saved |-> NoResp,
                    payload |-> NoPayload, out |-> NoOut] : st \in Settings }

Kept == UNCHANGED <<loader, mods, heap, req, resp, resolved, trace, calls, history,
                    threads, loop>>

Uploaded(upload, uuid, r) ==
    /\ store' = [store EXCEPT !.files = r.files, !.op = "upload", !.made = @ + 1,
                              !.upload = upload, !.uuid = uuid, !.saved = r.resp]
    /\ Kept

\* POST /uploads/pdf
UploadPdf ==
    /\ store # NoStore
    /\ store.made < MaxUploads
    /\ \E filename \in Filenames, data \in Datas(store.settings.UPLOAD_MAX_MB * MiB) :
         Uploaded([filename |-> filename, data |-> data], Uuid(store.made + 1),
                  upload_pdf(store.settings, store.files,
                             [filename |-> filename, data |-> data],
                             Uuid(store.made + 1)))

\* the payloads tried: what the last upload answered, and paths of other files
ExtractPayloads ==
    { [rel_path |-> r] : r \in {"../secret.pdf", "../uploads_evil/x.pdf",
                                "/srv/secret.pdf", "pdf/missing.pdf", "notes.txt"} }
    \cup { [path |-> q] : q \in {"/srv/uploads_evil/x.pdf",
                                 "/srv/uploads/../secret.pdf", "/srv/nothing.pdf"} }
    \cup { [text |-> "abc"] }
    \cup (IF store.saved.kind = "ok"
          THEN { [rel_path |-> store.saved.body.rel_path],
                 [path |-> store.saved.body.path] }
          ELSE {})

\* extract_text(payload) of the PDF reader
ExtractText ==
    /\ store # NoStore
    /\ \E payload \in ExtractPayloads, text \in Extractions :
         store' = [store EXCEPT !.op = "extract", !.payload = payload,
                                !.out = extract_text(store.settings, store.files,
                                                     payload, text)]
    /\ Kept

NextStore == UploadPdf \/ ExtractText

StoreSpec == InitStore /\ [][NextStore]_vars

\* the upload directory that both settings of UPLOAD_DIR name
UploadRoot == "/srv/uploads"

AcceptableUpload ==
    /\ store.upload.filename # ""
    /\ Len(store.upload.data) >= 5
    /\ SubSeq(store.upload.data, 1, 5) = "%PDF-"
    /\ Len(store.upload.data) <= store.settings.UPLOAD_MAX_MB * MiB

StoredFile == UploadRoot \o "/pdf/" \o store.saved.body.stored_as

\* the extraction asked for the rel_path the upload answered
ExtractedByRelPath ==
    /\ store.op = "extract"
    /\ store.saved.kind = "ok"
    /\ store.payload = [rel_path |-> store.saved.body.rel_path]

\* C21: an upload with a filename, the %PDF- header and a size within the
\* limit is answered ok true with a rel_path that extract_text resolves to
\* exactly the stored file, base_dir/subdir/stored_as inside UPLOAD_DIR, and
\* accepts by its existence, confinement and header checks.
C21_UploadThenExtract ==
    /\ (store # NoStore /\ store.op = "upload" /\ AcceptableUpload) =>
          /\ store.saved.kind = "ok"
          /\ store.saved.body.ok
          /\ StoredFile \in DOMAIN store.files
          /\ store.files[StoredFile] = store.upload.data
          /\ resolve_path(store.settings, store.files,
                          [rel_path |-> store.saved.body.rel_path])
                = [ok |-> TRUE, target |-> StoredFile, failure |-> Returns(StoredFile),
                   opened |-> {StoredFile}]
    /\ (store # NoStore /\ ExtractedByRelPath) =>
          /\ store.out.opened = {StoredFile}
          /\ \/ store.out.outcome.k = "return" /\ store.out.outcome.v.file = StoredFile
             \/ store.out.outcome = RaisesHttp(500, "Text extraction failed: boom")

C21_Witness ==
    /\ store # NoStore
    /\ ExtractedByRelPath
    /\ store.settings.UPLOAD_DIR = "uploads"
    /\ store.upload.filename = "../my file.pdf"
    /\ store.saved.body.rel_path = "pdf/u2_my_file.pdf"
    /\ store.out.outcome.k = "return"
    /\ store.out.outcome.v.file = "/srv/uploads/pdf/u2_my_file.pdf"

\* the file a payload names, rel_path before path
RequestedTarget ==
    IF PayloadGet(store.payload, "rel_path") # ""
    THEN PathStr(Resolve(Slash(PathOf(UploadRoot), PathOf(store.payload["rel_path"]))))
    ELSE PathStr(Resolve(PathOf(store.payload["path"])))

NamesTarget ==
    /\ store # NoStore
    /\ store.op = "extract"
    /\ PayloadGet(store.payload, "rel_path") # "" \/ PayloadGet(store.payload, "path") # ""

\* a path is inside a directory when its parts begin with the directory's
Inside(path, dir) == path = dir \/ StartsWith(path, dir \o "/")

AccessOutside == RaisesHttp(400, "Access outside uploads is not allowed.")

\* C22: _resolve_path returns only paths inside UPLOAD_DIR: a target that is
\* not inside it ('..' segments, an absolute path, a sibling directory whose
\* name begins with the upload directory's name) is rejected with 400 'Access
\* outside uploads is not allowed.' and its content is never read.
C22_ConfinedToUploads ==
    (NamesTarget /\ ~Inside(RequestedTarget, UploadRoot)) =>
        /\ store.out.outcome = AccessOutside
        /\ store.out.opened = {}

\* the same without the demand on the status of the refusal
C22_OutsideNeverRead ==
    (NamesTarget /\ ~Inside(RequestedTarget, UploadRoot)) =>
        /\ store.out.outcome.k = "http"
        /\ store.out.opened = {}

\* what is returned or read when UPLOAD_DIR has no sibling with its prefix
C22_ReadOnlyUnderPrefix ==
    (store # NoStore /\ store.op = "extract") =>
        \A path \in store.out.opened : StartsWith(path, UploadRoot)

\* the positions in an ordered collection of the instances whose descriptor
\* has the name
Matching(items, name) ==
    {k \in 1..Len(items) :
        /\ items[k][2] \in ObjIds
        /\ serialize_meta(heap[items[k][2]]).name = name}

\* the registry container has an entry for the name: a key of a mapping, or
\* an instance of that descriptor name in an ordered collection
Registers(reg, name) ==
    \/ reg.kind = "dict" /\ HasKey(reg.items, name)
    \/ reg.kind \in {"list", "tuple"} /\ Matching(reg.items, name) # {}

Registered(reg, name) ==
    IF reg.kind = "dict" THEN ItemFor(reg.items, name, 1)
    ELSE reg.items[Least(Matching(reg.items, name))][2]

RegistriesWith(name) ==
    {i \in 1..Len(RegistryNames) : Registers(loader.attrs[RegistryNames[i]], name)}

\* the registry strategy was reached and a registry has the requested name
FoundInRegistry ==
    /\ req.op = "run"
    /\ ~resolved.raised
    /\ CountOps("registry") > 0
    /\ RegistriesWith(req.name) # {}

\* C23: the registry strategy of resolution finds a registered plugin in a
\* mapping from name to instance, by key, and in an ordered collection of
\* instances, by scanning for the instance whose descriptor name is the
\* requested name.
C23_RegistryByKeyOrScan ==
    FoundInRegistry =>
        resolved.ref =
            Registered(loader.attrs[RegistryNames[Least(RegistriesWith(req.name))]],
                       req.name)

\* the same for registries that are mappings
C23_RegistryByKey ==
    (FoundInRegistry
       /\ loader.attrs[RegistryNames[Least(RegistriesWith(req.name))]].kind = "dict")
    => resolved.ref =
            Registered(loader.attrs[RegistryNames[Least(RegistriesWith(req.name))]],
                       req.name)

InitSteps == {i \in 1..Len(trace) : trace[i].op = "init"}

InventorySteps ==
    {i \in 1..Len(trace) : trace[i].op \in {"factory", "registry", "names", "lookup"}}

\* the init function is callable and every callable one before it raises
Attempted(k) ==
    /\ loader.attrs[InitFnNames[k]].callable
    /\ \A j \in 1..(k - 1) :
          loader.attrs[InitFnNames[j]].callable => loader.attrs[InitFnNames[j]].raises

\* C24: on every enumeration and resolution the init functions of the loader
\* are tried in the order of their names before any inventory is read; one
\* that raises is ignored and the next is tried, and none is called after the
\* first that returns normally.
C24_InitBeforeInventory ==
    (req.op \in {"list", "get", "run"} /\ loader.importOk) =>
        /\ \A i \in InitSteps, j \in InventorySteps : i < j
        /\ \A i, j \in InitSteps :
              i < j => IndexIn(InitFnNames, trace[i].arg) < IndexIn(InitFnNames, trace[j].arg)
        /\ \A k \in 1..Len(InitFnNames) :
              Attempted(k) <=> (\E i \in InitSteps : trace[i].arg = InitFnNames[k])

\* the first init function raises, the second returns, the third is not
\* called, and the inventories are read afterwards
C24_Witness ==
    /\ req.op = "list"
    /\ Len(trace) >= 4
    /\ trace[2] = Ev("init", "load_all_plugins")
    /\ trace[3] = Ev("init", "init_plugins")
    /\ loader.attrs["discover_plugins"].callable
    /\ CountOps("init") = 2
    /\ InventorySteps # {}

\* the last access made to the proxy in use, and the steps it made
LastAccess ==
    CHOOSE i \in 1..Len(history[InUse]) :
        /\ history[InUse][i].op \in {"load", "task", "unknown"}
        /\ \A j \in (i + 1)..Len(history[InUse]) :
              history[InUse][j].op \notin {"load", "task", "unknown"}

Accessed(op) ==
    /\ req.op = "use"
    /\ history[InUse] # <<>>
    /\ history[InUse][LastAccess].op = op

StepsSince(i) == SubSeq(history[InUse], i + 1, Len(history[InUse]))

\* C25: on a Lazy Proxy a name in tasks that is not otherwise defined gives a
\* callable that calls load(), forwards the payload to the method of that
\* name of the backing implementation and returns its result unchanged; a
\* name that is neither in tasks nor otherwise defined raises AttributeError
\* and the backing implementation is not constructed.
C25_GetAttrForwards ==
    /\ (Accessed("task") /\ calls # <<>>) =>
          /\ heap[InUse].impl # "unset"
          /\ history[InUse][Len(history[InUse])]
                = Ev("impl_call", history[InUse][LastAccess].arg)
          /\ calls[1].attr = history[InUse][LastAccess].arg
          /\ calls[1].payload = calls[1].submitted
          /\ IF Services[heap[InUse].backing].methods[calls[1].attr] = "async"
             THEN resp = Got(Returns(Coroutine))
             ELSE resp = Got(calls[1].outcome)
    /\ (Accessed("task") /\ calls = <<>>) => resp.kind = "raise"
    /\ Accessed("unknown") =>
          /\ resp = Got(Raises(history[InUse][LastAccess].arg))
          /\ StepsSince(LastAccess) = <<>>
          /\ calls = <<>>

\* the pdf_reader proxy has no task before its first load(): extract_text is
\* unknown, nothing is constructed
C25_WitnessUnknown ==
    /\ Accessed("unknown")
    /\ heap[InUse].backing = "pdf_reader"
    /\ history[InUse] = <<Ev("unknown", "extract_text")>>
    /\ heap[InUse].impl = "unset"
    /\ resp.kind = "raise"

\* after load() the same name is forwarded and its result returned
C25_Witness ==
    /\ Accessed("task")
    /\ heap[InUse].backing = "pdf_reader"
    /\ history[InUse][1] = Ev("unknown", "extract_text")
    /\ history[InUse][Len(history[InUse])] = Ev("impl_call", "extract_text")
    /\ calls # <<>>
    /\ resp = Got(Returns("r1"))

(***************************************************************************)
(* _serialize_meta on instances of any shape.  A value is a record of its   *)
(* type t and its text s; PluginMeta is a pydantic model whose constructor  *)
(* validates its fields, and pydantic either coerces a number to a string   *)
(* or refuses it, depending on the version installed.                       *)
(***************************************************************************)
Val(t, s) == [t |-> t, s |-> s]

Instance(cls, name, provider, tasks) ==
    [cls |-> cls, name |-> name, provider |-> provider, tasks |-> tasks]

TaskShapes ==
    { TasksOf(shape, <<>>) : shape \in {"absent", "none", "dict", "list"} }
    \cup { TasksOf("str", <<Val("str", "run")>>),
           TasksOf("list", <<Val("str", "a")>>),
           TasksOf("tuple", <<Val("str", "a"), Val("str", "b")>>),
           TasksOf("set", <<Val("str", "a")>>),
           TasksOf("list", <<Val("str", "a"), Val("none", "")>>),
           TasksOf("list", <<Val("int", "1")>>) }

Instances ==
    { Instance("Plugin", name, provider, tasks) :
        name \in {Val("none", ""), Val("str", ""), Val("str", "p"), Val("int", "5")},
        provider \in {Val("none", ""), Val("str", "acme"), Val("dict", "{}")},
        tasks \in TaskShapes }

Pydantics == {"coerces", "strict"}

\* the field accepts the value as a string
ValidStr(v, pydantic) == v.t = "str" \/ (v.t = "int" /\ pydantic = "coerces")

\* PluginMeta(name=..., provider=..., tasks=...): ValidationError unless
\* provider is a string or None and every task is a string
PluginMeta(name, provider, tasks, pydantic) ==
    IF /\ provider.t = "none" \/ ValidStr(provider, pydantic)
       /\ \A i \in 1..Len(tasks) : ValidStr(tasks[i], pydantic)
    THEN Resp("ok", 200, "",
              [name |-> name, provider |-> provider.s,
               tasks |-> [i \in 1..Len(tasks) |-> tasks[i].s]])
    ELSE Unhandled

\* truth value of a name: None, "" and 0 are falsy
Truthy(v) == v.t # "none" /\ v.s \notin {"", "0"}

serialize_meta_of(plugin, pydantic) ==
    PluginMeta(IF Truthy(plugin.name) THEN plugin.name.s ELSE plugin.cls,
               plugin.provider,
               IF IsListTupleSet(plugin.tasks) THEN plugin.tasks.items ELSE <<>>,
               pydantic)

InitMeta ==
    /\ loader = BrokenLoader
    /\ mods \in { [pydantic |-> v] : v \in Pydantics }
    /\ heap = InitialHeap
    /\ req = Req("meta", "", "", <<>>)
    /\ resp = NoResp
    /\ resolved \in { [found |-> TRUE, raised |-> FALSE, ref |-> NoneRef, obj |-> inst] :
                        inst \in Instances }
    /\ trace = <<>>
    /\ calls = <<>>
    /\ history = NoHistory
    /\ threads = NoThreads
    /\ loop = NoLoop
    /\ store = NoStore

\* meta = _serialize_meta(inst)
SerializeMeta ==
    /\ req.op = "meta"
    /\ resp = NoResp
    /\ resp' = serialize_meta_of(resolved.obj, mods.pydantic)
    /\ UNCHANGED <<loader, mods, heap, req, resolved, trace, calls, history, threads,
                   loop, store>>

NextMeta == SerializeMeta

MetaSpec == InitMeta /\ [][NextMeta]_vars

Serialized == req.op = "meta" /\ resp # NoResp

\* C26: _serialize_meta is total: for any instance it returns a descriptor
\* without raising, whose name is the instance's name as a string, or the
\* name of its type when it has none, and whose tasks are the instance's
\* tasks when that field is a list, tuple or set and empty for any other
\* shape.
C26_SerializeTotal ==
    Serialized =>
        /\ resp.kind = "ok"
        /\ resolved.obj.name.t = "none" => resp.body.name = resolved.obj.cls
        /\ (resolved.obj.name.t # "none" /\ resolved.obj.name.s # "")
              => resp.body.name = resolved.obj.name.s
        /\ IF IsListTupleSet(resolved.obj.tasks)
           THEN /\ Len(resp.body.tasks) = Len(resolved.obj.tasks.items)
                /\ \A i \in 1..Len(resp.body.tasks) :
                      resp.body.tasks[i] = resolved.obj.tasks.items[i].s
           ELSE resp.body.tasks = <<>>

\* the same for instances whose provider is a string or None and whose tasks
\* hold strings only
WellTyped ==
    /\ resolved.obj.provider.t \in {"none", "str"}
    /\ \A i \in 1..Len(resolved.obj.tasks.items) : resolved.obj.tasks.items[i].t = "str"

C26_TotalOnWellTyped ==
    (Serialized /\ WellTyped) =>
        /\ resp.kind = "ok"
        /\ resolved.obj.name.t = "none" => resp.body.name = resolved.obj.cls
        /\ IF IsListTupleSet(resolved.obj.tasks)
           THEN resp.body.tasks = [i \in 1..Len(resolved.obj.tasks.items) |->
                                      resolved.obj.tasks.items[i].s]
           ELSE resp.body.tasks = <<>>

\* C27: the catalog and the dispatcher agree on which plugins exist: on every
\* loader state POST /plugins/{n}/{t} answers 'Plugin not found: n' exactly
\* when GET /plugins/{n} answers 404.
C27_CatalogAgreesWithDispatch ==
    req.op = "run" =>
        ( resp = PluginNotFound(req.name)
          <=> get_plugin(loader, heap, req.name).resp.status = 404 )

\* a plugin reachable for task calls is listed
C27_ReachableIsListed ==
    (req.op = "run" /\ resolved.found) =>
        get_plugin(loader, heap, req.name).resp.kind = "ok"

\* a listed plugin is reachable
C27_ListedIsReachable ==
    (req.op = "run" /\ get_plugin(loader, heap, req.name).resp.kind = "ok") =>
        resolved.found

\* the backing implementation of the proxy has a load() that must complete
NeedsLoad(id) == Services[heap[id].backing].hasLoad

\* C28: when the constructor of the backing implementation or its load()
\* raises during load() of a Lazy Proxy, the proxy is not left marked as
\* loaded: a later load() or task call loads again, no task call is forwarded
\* to a backing implementation whose load() did not complete, and an empty
\* tasks list is still adopted later.
C28_FailedLoadIsRetried ==
    \A id \in LazyIds :
        /\ (heap[id].impl # "unset" /\ NeedsLoad(id)) => heap[id].implLoaded
        /\ \A j \in StepsNamed(id, "impl_call") :
              NeedsLoad(id) => \E i \in StepsOf(id, "impl_load", "ok") : i < j
        /\ (heap[id].impl # "unset"
              /\ InitialHeap[id].tasks.items = <<>>
              /\ IsListTupleSet(Services[heap[id].backing].tasks))
           => heap[id].tasks.items = Services[heap[id].backing].tasks.items

\* the same when only the import or the constructor fails
NoLoadFailure ==
    \A id \in LazyIds : StepsOf(id, "impl_load", "raises") = {}

C28_FailedConstructionIsRetried ==
    NoLoadFailure =>
        \A id \in LazyIds :
            /\ (heap[id].impl # "unset" /\ NeedsLoad(id)) => heap[id].implLoaded
            /\ \A j \in StepsNamed(id, "impl_call") :
                  NeedsLoad(id) => \E i \in StepsOf(id, "impl_load", "ok") : i < j

\* a task is forwarded after the constructor failed once
C28_RetryWitness ==
    /\ req.op = "use"
    /\ StepsOf(InUse, "impl_construct", "raises") # {}
    /\ StepsOf(InUse, "impl_construct", "ok") # {}
    /\ StepsNamed(InUse, "impl_call") # {}

\* the tasks the resolved plugin declares
Declared ==
    IF IsListTupleSet(resolved.obj.tasks) THEN SeqToSet(resolved.obj.tasks.items) ELSE {}

\* C29: run_plugin_task calls a named method of the plugin only for task
\* names the plugin declares: an undeclared name that is the name of another
\* callable attribute of the instance (load, infer, a private helper) never
\* gets that attribute called with the request payload.
C29_OnlyDeclaredTasksCalled ==
    (req.op = "run" /\ calls # <<>> /\ calls[1].via = "task")
    => calls[1].attr \in Declared

\* Lazy Proxies forward declared names only
C29_ProxiesCallDeclaredOnly ==
    (req.op = "run" /\ calls # <<>> /\ calls[1].via = "task"
       /\ GetAttr(resolved.obj, calls[1].attr) = "proxy")
    => calls[1].attr \in Declared

\* a step that is one call of save_pdf
UploadStep == store # NoStore /\ store'.made = store.made + 1

\* the files the step created, and whether it left the others as they were
NewFiles == (DOMAIN store'.files) \ (DOMAIN store.files)
OthersKept == \A q \in DOMAIN store.files : q \in DOMAIN store'.files /\ store'.files[q] = store.files[q]

MaxBytes == store.settings.UPLOAD_MAX_MB * MiB

\* C30: after save_pdf rejects an upload (missing filename, missing %PDF-
\* header, more than max_mb of content) no file of that upload remains in the
\* storage directory; after it succeeds exactly one new file exists, of the
\* reported size_bytes, which is at most max_bytes; content of exactly
\* max_bytes is accepted.
C30_RejectedLeavesNoFile ==
    [][UploadStep =>
         /\ OthersKept
         /\ (store'.upload.filename = ""
               \/ Read(store'.upload.data, 1, 5) # "%PDF-"
               \/ Len(store'.upload.data) > MaxBytes)
            => (store'.saved.kind # "ok" /\ NewFiles = {})
         /\ store'.saved.kind # "ok" => NewFiles = {}
         /\ store'.saved.kind = "ok"
            => /\ NewFiles = {StoredFile'}
               /\ Len(store'.files[StoredFile']) = store'.saved.body.size_bytes
               /\ store'.files[StoredFile'] = store'.upload.data
               /\ store'.saved.body.size_bytes <= MaxBytes
         /\ (store'.upload.filename # "" /\ Read(store'.upload.data, 1, 5) = "%PDF-"
               /\ Len(store'.upload.data) = MaxBytes)
            => store'.saved.kind = "ok"
    ]_vars

\* an upload of more than max_bytes was answered 413 after an earlier one
\* of exactly max_bytes was stored
C30_Witness ==
    /\ store # NoStore
    /\ store.op = "upload"
    /\ store.made = 2
    /\ store.saved.status = 413
    /\ Len(store.upload.data) = MaxBytes + 1
    /\ \E q \in DOMAIN store.files :
         q \notin DOMAIN InitialFiles /\ Len(store.files[q]) = MaxBytes
    /\ Cardinality(DOMAIN store.files) = Cardinality(DOMAIN InitialFiles) + 1

====
